---- MODULE Spec2Model ----
(***************************************************************************)
(* Model of the BigQuery tool-calling agent (src/src/adk_agent.py), of the *)
(* data-access client it drives (src/src/mcp_server.py) and of the         *)
(* planning agent that wraps it (src/src/planning_agent.py).               *)
(*                                                                         *)
(* Python values are written as follows.                                   *)
(*   scalar   [ty |-> "none" | "bool" | "int" | "str", s |-> literal]      *)
(*            (an int is held as its decimal numeral: Python ints are      *)
(*            unbounded)                                                   *)
(*   dict     a sequence of <<key, value>> pairs with distinct keys, in    *)
(*            insertion order                                              *)
(*   kwargs   a function from argument names to strings                    *)
(*   result   [kind |-> "list_str" | "dict" | "list_dict", val |-> ...]    *)
(*   str      a string; prompts and model texts are ASCII                  *)
(*                                                                         *)
(* Specifications.                                                         *)
(*   Spec        run_agent, the model deciding on batches of tool calls    *)
(*   SpecPrompt  run_agent on a range of prompts, with short batches       *)
(*   SpecPlan    run_planning_agent around run_agent                       *)
(*   SpecFormat  format_sql_results_as_table called on one argument        *)
(*   SpecAnalysis  run_agent on batches whose results the analysis reads   *)
(*   SpecClient  the methods of BigQueryClient called directly             *)
(*   SpecExtract  extract_json_from_response called on one text            *)
(*   SpecChat    the chat page (src/src/streamlit_ui.py)                   *)
(***************************************************************************)
EXTENDS Integers, Sequences, FiniteSets, TLC

VARIABLES
    pc,          \* position of run_agent
    apiKey,      \* bool(GOOGLE_API_KEY)
    client,      \* state of bq_client.client: "none", "ok" or "down"
    prompt,      \* the user's query
    reply,       \* how the model answers the decision call of this request
    llmCalls,    \* calls made on the generative model so far
    escaped,     \* an exception left run_agent
    tool_calls,  \* the batch parsed from the model's decision
    idx,         \* 1-based position of the dispatch loop in tool_calls
    results,     \* the dispatch loop's results list
    bqLog,       \* calls made on bq_client, in order
    exc,         \* the last exception raised in run_agent and its handler
    response,    \* what run_agent returns
    ppc,         \* position of run_planning_agent
    provider,    \* LLM_PROVIDER
    openaiKey,   \* bool(OPENAI_API_KEY)
    enh,         \* how the model answers the enhancement call
    presponse,   \* what run_planning_agent returns
    fin,         \* format_sql_results_as_table: its argument
    fout,        \* format_sql_results_as_table: its return value
    fpc,         \* format_sql_results_as_table: "call" or "ret"
    xin,         \* extract_json_from_response: the text it is called on, in parts
    xout,        \* extract_json_from_response: its return value
    xpc,         \* extract_json_from_response: "call" or "ret"
    messages,    \* st.session_state.messages of the chat page
    upc          \* position of the chat page's script

inputVars == <<apiKey, client, prompt, reply>>
planVars == <<ppc, provider, openaiKey, enh, presponse>>
agentVars == <<pc, apiKey, client, prompt, reply, llmCalls, escaped, tool_calls,
               idx, results, bqLog, exc, response>>
fmtVars == <<fin, fout, fpc>>
extVars == <<xin, xout, xpc>>
chatVars == <<messages, upc>>
sideVars == <<fmtVars, extVars, chatVars>>
vars == <<pc, apiKey, client, prompt, reply, llmCalls, escaped, tool_calls, idx,
          results, bqLog, exc, response, ppc, provider, openaiKey, enh,
          presponse, fin, fout, fpc, xin, xout, xpc, messages, upc>>

----------------------------------------------------------------------------
(* Bounds of the model. *)

MaxCalls == 3
MaxPromptCalls == 2
MaxPlanCalls == 2
MaxAnalysisCalls == 2
MaxClientCalls == 2
MaxExchanges == 3
MaxRows == 2
MaxStrLen == 53

----------------------------------------------------------------------------
(* Python values. *)

PyNone == [ty |-> "none", s |-> "None"]
PyBool(b) == [ty |-> "bool", s |-> IF b THEN "True" ELSE "False"]
PyInt(numeral) == [ty |-> "int", s |-> numeral]
PyStr(text) == [ty |-> "str", s |-> text]

EmptyDict == <<>>
DictKeys(d) == [i \in 1..Len(d) |-> d[i][1]]
HasKey(d, k) == \E i \in 1..Len(d) : d[i][1] = k
DictGet(d, k, default) ==
    IF HasKey(d, k) THEN d[CHOOSE i \in 1..Len(d) : d[i][1] = k][2] ELSE default

NoKwargs == [k \in {} |-> ""]

\* A faulty variant of Restrict: the arguments are passed on as they came.
KeepAll(arguments, keep) == arguments

Restrict(arguments, keep) == [k \in (DOMAIN arguments) \cap keep |-> arguments[k]]

ListStr(xs) == [kind |-> "list_str", val |-> xs]
Dict(d) == [kind |-> "dict", val |-> d]
ListDict(rows) == [kind |-> "list_dict", val |-> rows]

Ret(v) == [raised |-> FALSE, msg |-> "", val |-> v]
Raise(m, v) == [raised |-> TRUE, msg |-> m, val |-> v]

----------------------------------------------------------------------------
(* Configuration (src/src/config.py). *)

PROJECT_ID == "vertical-hook-453217-j9"
DATASET_ID == "IndianAPI"
TABLE_ID == "IndianAPI"

----------------------------------------------------------------------------
(* The warehouse behind google.cloud.bigquery.Client, as BigQueryClient    *)
(* uses it.  With client = "down" every request raises; a request for an   *)
(* object that does not exist, or a malformed query, raises as well.       *)

\* adk_agent.py, line 380 (the back quotes around the table name are left out).
SampleRowsQuery ==
    "SELECT * FROM " \o PROJECT_ID \o "." \o DATASET_ID \o "." \o TABLE_ID
        \o " LIMIT 10"

SqlGood == "SELECT 1"
SqlOther == "SELECT 2"
SqlBad == "SELEC 1"
SqlAliased == "SELECT Sector AS SectorName"

\* A second table of the dataset.
OtherTable == "Sectors"

\* The numbers of rows the sector queries yield: up to, at and over the ten
\* rows the sector list of adk_agent.py, line 299, shows.
SectorCounts == {10, 11, 12}

SectorQuery(n) == "SELECT DISTINCT Sector LIMIT " \o ToString(n)

SectorRows(n) == [i \in 1..n |-> << <<"Sector", PyStr("Sector " \o ToString(i))>> >>]

BackendDown == "503 Service Unavailable"

BackendListDatasets(c) ==
    IF c = "down" THEN Raise(BackendDown, <<>>) ELSE Ret(<<DATASET_ID, "sales">>)

BackendGetDataset(c, dataset_id) ==
    IF c = "down" THEN Raise(BackendDown, EmptyDict)
    ELSE IF dataset_id # DATASET_ID THEN Raise("404 Not found: Dataset", EmptyDict)
    ELSE Ret(<< <<"dataset_id", PyStr(dataset_id)>>,
                <<"description", PyNone>>,
                <<"location", PyStr("US")>>,
                <<"created", PyStr("2024-01-01T00:00:00+00:00")>> >>)

BackendListTables(c, dataset_id) ==
    IF c = "down" THEN Raise(BackendDown, <<>>)
    ELSE IF dataset_id # DATASET_ID THEN Raise("404 Not found: Dataset", <<>>)
    ELSE Ret(<<TABLE_ID>>)

BackendGetTable(c, dataset_id, table_id) ==
    IF c = "down" THEN Raise(BackendDown, EmptyDict)
    ELSE IF dataset_id # DATASET_ID \/ table_id \notin {TABLE_ID, OtherTable}
         THEN Raise("404 Not found: Table", EmptyDict)
    ELSE Ret(<< <<"table_id", PyStr(table_id)>>,
                <<"num_rows", PyInt(IF table_id = TABLE_ID THEN "93" ELSE "12")>>,
                <<"num_columns", PyInt(IF table_id = TABLE_ID THEN "17" ELSE "1")>>,
                <<"description", PyNone>> >>)

\* The rows a query job yields, before BigQueryClient converts them.
BackendQuery(c, query) ==
    IF c = "down" THEN Raise(BackendDown, <<>>)
    ELSE IF query = SqlGood
         THEN Ret(<< << <<"f0_", PyInt("1")>> >> >>)
    ELSE IF query = SampleRowsQuery
         THEN Ret(<< << <<"Ticker", PyStr("TCS")>>, <<"Sector", PyStr("Technology")>> >>,
                     << <<"Ticker", PyStr("IRCTC")>>, <<"Sector", PyNone>> >> >>)
    ELSE IF query = SqlOther
         THEN Ret(<< << <<"Sector", PyStr("Technology")>>, <<"Industry", PyNone>> >>,
                     << <<"Sector", PyStr("Industrials")>>, <<"Industry", PyStr("Rail")>> >> >>)
    ELSE IF query = SqlAliased
         THEN Ret(<< << <<"SectorName", PyStr("Technology")>> >>,
                     << <<"SectorName", PyStr("Industrials")>> >> >>)
    ELSE IF \E n \in SectorCounts : query = SectorQuery(n)
         THEN Ret(SectorRows(CHOOSE n \in SectorCounts : query = SectorQuery(n)))
    ELSE Raise("400 Syntax error", <<>>)

----------------------------------------------------------------------------
(* BigQueryClient (src/src/mcp_server.py).  Every method returns; what     *)
(* the warehouse raises is caught inside it.                               *)

NotAuthenticated == "BigQuery client not authenticated"

bq_list_datasets(c) ==
    IF c = "none" THEN Ret(ListStr(<<"Error: " \o NotAuthenticated>>))
    ELSE LET r == BackendListDatasets(c)
         IN  IF r.raised THEN Ret(ListStr(<<"Error: " \o r.msg>>))
             ELSE Ret(ListStr(r.val))

bq_get_dataset_info(c, dataset_id) ==
    IF c = "none" THEN Ret(Dict(<< <<"error", PyStr(NotAuthenticated)>> >>))
    ELSE LET r == BackendGetDataset(c, dataset_id)
         IN  IF r.raised THEN Ret(Dict(<< <<"error", PyStr(r.msg)>> >>))
             ELSE Ret(Dict(r.val))

bq_list_tables(c, dataset_id) ==
    IF c = "none" THEN Ret(ListStr(<<"Error: " \o NotAuthenticated>>))
    ELSE LET r == BackendListTables(c, dataset_id)
         IN  IF r.raised THEN Ret(ListStr(<<"Error: " \o r.msg>>))
             ELSE Ret(ListStr(r.val))

\* A faulty variant of bq_get_table_info: no try/except around the request.
bq_get_table_info_uncaught(c, dataset_id, table_id) ==
    IF c = "none" THEN Ret(Dict(<< <<"error", PyStr(NotAuthenticated)>> >>))
    ELSE LET r == BackendGetTable(c, dataset_id, table_id)
         IN  IF r.raised THEN Raise(r.msg, EmptyDict) ELSE Ret(Dict(r.val))

bq_get_table_info(c, dataset_id, table_id) ==
    IF c = "none" THEN Ret(Dict(<< <<"error", PyStr(NotAuthenticated)>> >>))
    ELSE LET r == BackendGetTable(c, dataset_id, table_id)
         IN  IF r.raised THEN Ret(Dict(<< <<"error", PyStr(r.msg)>> >>))
             ELSE Ret(Dict(r.val))

\* Lines 98-105: None becomes the string "NULL", numbers and booleans are
\* kept, anything else is stringified.
CoerceValue(value) ==
    IF value.ty = "none" THEN PyStr("NULL")
    ELSE IF value.ty \in {"int", "bool"} THEN value
    ELSE PyStr(value.s)

CoerceRow(row) == [i \in 1..Len(row) |-> <<row[i][1], CoerceValue(row[i][2])>>]

\* A faulty variant of bq_execute_query: no try/except around the request.
bq_execute_query_uncaught(c, query) ==
    IF c = "none" THEN Ret(ListDict(<< << <<"error", PyStr(NotAuthenticated)>> >> >>))
    ELSE LET r == BackendQuery(c, query)
         IN  IF r.raised THEN Raise(r.msg, ListDict(<<>>))
             ELSE Ret(ListDict([i \in 1..Len(r.val) |-> CoerceRow(r.val[i])]))

bq_execute_query(c, query) ==
    IF c = "none" THEN Ret(ListDict(<< << <<"error", PyStr(NotAuthenticated)>> >> >>))
    ELSE LET r == BackendQuery(c, query)
         IN  IF r.raised THEN Ret(ListDict(<< << <<"error", PyStr(r.msg)>> >> >>))
             ELSE Ret(ListDict([i \in 1..Len(r.val) |-> CoerceRow(r.val[i])]))

----------------------------------------------------------------------------
(* The tool functions of the agent (src/src/adk_agent.py, lines 46-64).    *)

ToolNames ==
    {"list_dataset_ids", "get_dataset_info", "list_table_ids", "get_table_info",
     "execute_sql"}

\* The parameters each tool function declares.
ToolParams(name) ==
    CASE name = "list_dataset_ids" -> {}
      [] name = "get_dataset_info" -> {"dataset_id"}
      [] name = "list_table_ids" -> {"dataset_id"}
      [] name = "get_table_info" -> {"dataset_id", "table_id"}
      [] name = "execute_sql" -> {"query"}

NoValue == [kind |-> "none", val |-> <<>>]

\* The method of bq_client a tool function calls, with its arguments.
BqCallOf(name, kwargs) ==
    CASE name = "list_dataset_ids" -> [op |-> "list_datasets", args |-> <<>>]
      [] name = "get_dataset_info" ->
            [op |-> "get_dataset_info", args |-> <<kwargs["dataset_id"]>>]
      [] name = "list_table_ids" ->
            [op |-> "list_tables", args |-> <<kwargs["dataset_id"]>>]
      [] name = "get_table_info" ->
            [op |-> "get_table_info",
             args |-> <<kwargs["dataset_id"], kwargs["table_id"]>>]
      [] name = "execute_sql" ->
            [op |-> "execute_query", args |-> <<kwargs["query"]>>]

BqInvoke(c, op, args) ==
    CASE op = "list_datasets" -> bq_list_datasets(c)
      [] op = "get_dataset_info" -> bq_get_dataset_info(c, args[1])
      [] op = "list_tables" -> bq_list_tables(c, args[1])
      [] op = "get_table_info" -> bq_get_table_info(c, args[1], args[2])
      [] op = "execute_query" -> bq_execute_query(c, args[1])

\* `await tool(**kwargs)`: Python raises TypeError when a declared parameter
\* is missing or a keyword is not a parameter; otherwise the tool returns
\* what the method of bq_client returns (or raises what it raises).
CallTool(name, kwargs, c) ==
    IF DOMAIN kwargs # ToolParams(name)
    THEN [raised |-> TRUE, msg |-> "TypeError", val |-> NoValue, bq |-> <<>>]
    ELSE LET call == BqCallOf(name, kwargs)
             r == BqInvoke(c, call.op, call.args)
         IN  [raised |-> r.raised, msg |-> r.msg,
              val |-> IF r.raised THEN NoValue ELSE r.val,
              bq |-> << [op |-> call.op, args |-> call.args,
                         raised |-> r.raised,
                         ret |-> IF r.raised THEN NoValue ELSE r.val] >>]

----------------------------------------------------------------------------
(* The dispatch loop of run_agent (lines 229-262).                         *)

\* Lines 251-256: 'sql' or 'sql_query' is renamed to 'query' when 'query'
\* is absent.
Rename(arguments, old, new) ==
    [k \in ((DOMAIN arguments) \ {old}) \cup {new} |->
        IF k = new THEN arguments[old] ELSE arguments[k]]

\* A faulty variant of NormalizeSqlArguments: sql_query is not renamed.
NormalizeSqlOnly(arguments) ==
    IF "sql" \in DOMAIN arguments /\ "query" \notin DOMAIN arguments
    THEN Rename(arguments, "sql", "query")
    ELSE arguments

NormalizeSqlArguments(arguments) ==
    IF "sql" \in DOMAIN arguments /\ "query" \notin DOMAIN arguments
    THEN Rename(arguments, "sql", "query")
    ELSE IF "sql_query" \in DOMAIN arguments /\ "query" \notin DOMAIN arguments
    THEN Rename(arguments, "sql_query", "query")
    ELSE arguments

UnknownToolError(tool_name) ==
    Dict(<< <<"error", PyStr("Unknown tool: " \o tool_name)>> >>)

\* A faulty variant of UnknownTool: the lookup of the name raises.
UnknownToolRaises(tool_name) ==
    [raised |-> TRUE, msg |-> "KeyError", val |-> NoValue, bq |-> <<>>]

\* Lines 258-259: a name outside the ladder is answered with an error value;
\* nothing is called and nothing is raised.
UnknownTool(tool_name) ==
    [raised |-> FALSE, msg |-> "", val |-> UnknownToolError(tool_name), bq |-> <<>>]

\* Lines 237-259: the if/elif ladder over the tool name.
InvokeToolCall(tool_name, arguments, c) ==
    IF tool_name = "list_dataset_ids"
    THEN CallTool("list_dataset_ids", NoKwargs, c)
    ELSE IF tool_name = "get_dataset_info"
    THEN CallTool("get_dataset_info", Restrict(arguments, {"dataset_id"}), c)
    ELSE IF tool_name = "list_table_ids"
    THEN CallTool("list_table_ids", arguments, c)
    ELSE IF tool_name = "get_table_info"
    THEN CallTool("get_table_info", Restrict(arguments, {"dataset_id", "table_id"}), c)
    ELSE IF tool_name = "execute_sql"
    THEN CallTool("execute_sql", NormalizeSqlArguments(arguments), c)
    ELSE UnknownTool(tool_name)

\* A faulty variant of AppendResult: the entry is put first.
PrependResult(rs, tool_name, result) ==
    <<[tool |-> tool_name, result |-> result]>> \o rs

\* Line 261.
AppendResult(rs, tool_name, result) ==
    Append(rs, [tool |-> tool_name, result |-> result])

----------------------------------------------------------------------------
(* The decisions the model may return: batches of at most MaxCalls tool    *)
(* calls, each call {"name": ..., "arguments": {...}}.                     *)

Call(name, arguments) == [name |-> name, arguments |-> arguments]

CallPool ==
    { Call("list_dataset_ids", NoKwargs),
      Call("get_dataset_info", [dataset_id |-> DATASET_ID, project_id |-> PROJECT_ID]),
      Call("list_table_ids", [dataset_id |-> DATASET_ID]),
      Call("list_table_ids", [dataset_id |-> "no_such_dataset"]),
      Call("list_table_ids", [dataset_id |-> DATASET_ID, project_id |-> PROJECT_ID]),
      Call("get_table_info", [dataset_id |-> DATASET_ID, table_id |-> TABLE_ID]),
      Call("get_table_info", [dataset_id |-> DATASET_ID]),
      Call("execute_sql", [query |-> SqlGood]),
      Call("execute_sql", [sql |-> SqlGood]),
      Call("execute_sql", [sql_query |-> SqlGood]),
      Call("execute_sql", [sql |-> SqlGood, query |-> SqlOther]),
      Call("execute_sql", [query |-> SqlBad]),
      Call("execute_sql", NoKwargs),
      Call("bogus", NoKwargs) }

RECURSIVE SeqsUpTo(_, _)
SeqsUpTo(S, n) ==
    IF n = 0 THEN {<<>>}
    ELSE LET shorter == SeqsUpTo(S, n - 1)
         IN  shorter \cup {Append(q, x) : q \in shorter, x \in S}

Batches == SeqsUpTo(CallPool, MaxCalls)

----------------------------------------------------------------------------
(* format_sql_results_as_table (lines 81-126).                             *)

TruncateOver == 50
KeepChars == 47

RECURSIVE JoinStr(_, _)
\* sep.join(parts)
JoinStr(parts, sep) ==
    IF Len(parts) = 0 THEN ""
    ELSE IF Len(parts) = 1 THEN parts[1]
    ELSE parts[1] \o sep \o JoinStr(Tail(parts), sep)

\* str(results) of a list: its elements' repr between brackets.  The lists
\* that reach this are empty or hold plain strings (without quotes).
StrOfList(lst) ==
    "[" \o JoinStr([i \in 1..Len(lst.val) |-> "'" \o lst.val[i] \o "'"], ", ")
        \o "]"

\* A faulty variant of RenderCell: a string of exactly 50 characters is cut.
RenderCellEager(value) ==
    IF value.ty = "none" THEN "NULL"
    ELSE IF value.ty \in {"int", "bool"} THEN value.s
    ELSE IF Len(value.s) >= TruncateOver
         THEN SubSeq(value.s, 1, KeepChars) \o "..."
         ELSE value.s

\* Lines 112-121: one cell.
RenderCell(value) ==
    IF value.ty = "none" THEN "NULL"
    ELSE IF value.ty \in {"int", "bool"} THEN value.s
    ELSE IF Len(value.s) > TruncateOver
         THEN SubSeq(value.s, 1, KeepChars) \o "..."
         ELSE value.s

\* A faulty variant of RowValues: the row is rendered by its own keys.
RowValuesOwnKeys(row, columns) ==
    [j \in 1..Len(row) |-> RenderCell(row[j][2])]

\* Lines 108-121: the cells of one row, one per column of the first row, a
\* column the row lacks read as "".
RowValues(row, columns) ==
    [j \in 1..Len(columns) |-> RenderCell(DictGet(row, columns[j], PyStr("")))]

\* A faulty variant of FirstRowIsError: the error is seen only when the error
\* mapping is the whole list.
OnlyRowIsError(res) ==
    res.kind = "list_dict" /\ Len(res.val) = 1 /\ HasKey(res.val[1], "error")

\* Line 87: the list is not empty and its first element is a mapping with
\* the key error.
FirstRowIsError(res) ==
    Len(res.val) > 0 /\ res.kind = "list_dict" /\ HasKey(res.val[1], "error")

format_sql_results_as_table(res) ==
    IF Len(res.val) = 0
    THEN StrOfList(res)
    ELSE IF FirstRowIsError(res)
    THEN "Error: " \o DictGet(res.val[1], "error", PyNone).s
    ELSE IF Len(res.val) = 0
    THEN "No results found."
    ELSE IF res.kind # "list_dict"
    THEN StrOfList(res)
    ELSE LET columns == DictKeys(res.val[1])
             header == "| " \o JoinStr(columns, " | ") \o " |"
             separator == "|" \o JoinStr([j \in 1..Len(columns) |-> "---"], "|") \o "|"
             rows == [i \in 1..Len(res.val) |->
                         "| " \o JoinStr(RowValues(res.val[i], columns), " | ")
                              \o " |"]
             table_lines == <<header, separator>> \o rows
         IN  JoinStr(table_lines, "\n")

\* repr of a scalar, of a mapping and of a tool result, as an f-string
\* shows them (line 353).  No string of the model holds a quote.
ReprScalar(value) ==
    IF value.ty = "str" THEN "'" \o value.s \o "'"
    ELSE IF value.ty = "none" THEN "None"
    ELSE value.s

ReprDict(d) ==
    "{" \o JoinStr([i \in 1..Len(d) |->
                        "'" \o d[i][1] \o "': " \o ReprScalar(d[i][2])], ", ")
        \o "}"

PyRepr(v) ==
    IF v.kind = "list_str" THEN StrOfList(v)
    ELSE IF v.kind = "dict" THEN ReprDict(v.val)
    ELSE "[" \o JoinStr([i \in 1..Len(v.val) |-> ReprDict(v.val[i])], ", ") \o "]"

----------------------------------------------------------------------------
(* Text.  The strings of the model are ASCII: str.lower changes A-Z only,  *)
(* and \w of the re module is a letter, a digit or the underscore.         *)

UpperCase == "ABCDEFGHIJKLMNOPQRSTUVWXYZ"
LowerCase == "abcdefghijklmnopqrstuvwxyz"
DigitChars == "0123456789"

CharAt(text, i) == SubSeq(text, i, i)

\* The first position at which sep occurs in text, 0 when it does not.
FirstAt(text, sep) ==
    LET hits == {i \in 1..(Len(text) - Len(sep) + 1) :
                    SubSeq(text, i, i + Len(sep) - 1) = sep}
    IN  IF hits = {} THEN 0 ELSE CHOOSE i \in hits : \A k \in hits : i <= k

\* sub in text
Contains(text, sub) ==
    \E i \in 1..(Len(text) - Len(sub) + 1) : SubSeq(text, i, i + Len(sub) - 1) = sub

\* The lower-case letter of each upper-case one.
LowerOf ==
    [ch \in {CharAt(UpperCase, i) : i \in 1..Len(UpperCase)} |->
        CharAt(LowerCase, FirstAt(UpperCase, ch))]

LowerChar(ch) == IF ch \in DOMAIN LowerOf THEN LowerOf[ch] ELSE ch

RECURSIVE lower(_)
\* text.lower()
lower(text) ==
    IF Len(text) = 0 THEN ""
    ELSE LowerChar(CharAt(text, 1)) \o lower(SubSeq(text, 2, Len(text)))

\* The characters \w matches.
WordChars ==
    LET alphabet == UpperCase \o LowerCase \o DigitChars \o "_"
    IN  {CharAt(alphabet, i) : i \in 1..Len(alphabet)}

IsWordChar(ch) == ch \in WordChars

\* \b between positions k and k+1 of text: exactly one side is a word
\* character, the outside of the string counting as none.
WordBoundary(text, k) ==
    LET left == k >= 1 /\ IsWordChar(CharAt(text, k))
        right == k + 1 <= Len(text) /\ IsWordChar(CharAt(text, k + 1))
    IN  left # right

\* re.search(r'\b' + re.escape(keyword) + r'\b', text)
WordSearch(text, keyword) ==
    \E i \in 1..(Len(text) - Len(keyword) + 1) :
        /\ SubSeq(text, i, i + Len(keyword) - 1) = keyword
        /\ WordBoundary(text, i - 1)
        /\ WordBoundary(text, i + Len(keyword) - 1)

\* text[i:i+len(sub)] == sub
StartsAt(text, i, sub) ==
    /\ i >= 1
    /\ i + Len(sub) - 1 <= Len(text)
    /\ SubSeq(text, i, i + Len(sub) - 1) = sub

\* \s of the re module, and the characters str.strip removes.
IsSpace(ch) == ch \in {" ", "\n", "\t", "\r"}

\* The first position from i on that holds no white space, Len(text) + 1
\* when there is none.
SkipSpaces(text, i) ==
    LET stops == {j \in i..Len(text) : ~IsSpace(CharAt(text, j))}
    IN  IF stops = {} THEN Len(text) + 1
        ELSE CHOOSE j \in stops : \A k \in stops : j <= k

\* text.strip()
strip(text) ==
    LET first == SkipSpaces(text, 1)
        kept == {j \in 1..Len(text) : ~IsSpace(CharAt(text, j))}
    IN  IF kept = {} THEN ""
        ELSE SubSeq(text, first, CHOOSE j \in kept : \A k \in kept : j >= k)

----------------------------------------------------------------------------
(* extract_json_from_response (lines 66-79).  The fence of a markdown code *)
(* block, three back quotes in the source, is written ~~~ here.            *)

Fence == "~~~"

\* Line 69: the group of the first pattern when the opening fence stands at
\* i, as its <<first, last>> positions; <<0, 0>> when the pattern does not
\* match there.  The group runs from the brace after the fence to the
\* first closing brace that white space and a fence follow.
FencedGroupAt(text, i) ==
    IF ~StartsAt(text, i, Fence) THEN <<0, 0>>
    ELSE LET a == i + Len(Fence)
             b == SkipSpaces(text, IF StartsAt(text, a, "json") THEN a + 4 ELSE a)
             ends == {e \in (b + 1)..Len(text) :
                         /\ CharAt(text, e) = "}"
                         /\ StartsAt(text, SkipSpaces(text, e + 1), Fence)}
         IN  IF ~StartsAt(text, b, "{") \/ ends = {} THEN <<0, 0>>
             ELSE <<b, CHOOSE e \in ends : \A k \in ends : e <= k>>

\* Line 74: the group of the second pattern: from the first opening brace
\* to the closing brace that ends the text but for white space.
TrailingGroup(text) ==
    LET kept == {j \in 1..Len(text) : ~IsSpace(CharAt(text, j))}
        last == IF kept = {} THEN 0 ELSE CHOOSE j \in kept : \A k \in kept : j >= k
        opens == {b \in 1..(last - 1) : CharAt(text, b) = "{"}
    IN  IF last = 0 \/ CharAt(text, last) # "}" \/ opens = {} THEN <<0, 0>>
        ELSE <<CHOOSE b \in opens : \A k \in opens : b <= k, last>>

extract_json_from_response(text) ==
    LET starts == {i \in 1..Len(text) : FencedGroupAt(text, i) # <<0, 0>>}
        fenced == FencedGroupAt(text, CHOOSE i \in starts : \A k \in starts : i <= k)
        trailing == TrailingGroup(text)
    IN  IF starts # {} THEN SubSeq(text, fenced[1], fenced[2])
        ELSE IF trailing # <<0, 0>> THEN SubSeq(text, trailing[1], trailing[2])
        ELSE text

\* Lines 223, 358-360: str() of the JSONDecodeError json.loads raises on the
\* texts of NonJsonTexts: a text opening a brace that no quoted key
\* follows, or a text that opens no JSON value at all.
JsonDecodeError(json_text) ==
    IF StartsAt(json_text, 1, "{")
    THEN "Expecting property name enclosed in double quotes: line 1 column 2 (char 1)"
    ELSE "Expecting value: line 1 column 1 (char 0)"

----------------------------------------------------------------------------
(* The classifiers of the prompt and the texts run_agent returns.          *)

\* Line 267.
analysis_keywords ==
    <<"analyse", "analyze", "analysis", "understand", "summary", "summarize",
      "nature", "explain", "insight", "provide", "find", "different",
      "compare", "trend", "pattern">>

\* Line 268: any(keyword in prompt.lower() for keyword in analysis_keywords)
is_analysis_query(text) ==
    \E prompt_lower \in {lower(text)} :
        \E i \in 1..Len(analysis_keywords) :
            Contains(prompt_lower, analysis_keywords[i])

\* Lines 373-398: the branch of the keyword fallback the lowercased prompt
\* selects.
FallbackIntent(prompt_lower) ==
    IF /\ Contains(prompt_lower, "dataset")
       /\ \/ Contains(prompt_lower, "what")
          \/ Contains(prompt_lower, "list")
          \/ Contains(prompt_lower, "have")
    THEN "datasets"
    ELSE IF /\ \/ Contains(prompt_lower, "show")
               \/ Contains(prompt_lower, "display")
               \/ Contains(prompt_lower, "get")
            /\ Contains(prompt_lower, "indianapi")
            /\ \/ Contains(prompt_lower, "row")
               \/ Contains(prompt_lower, "data")
               \/ Contains(prompt_lower, "record")
    THEN "rows"
    ELSE IF Contains(prompt_lower, "help") \/ Contains(prompt_lower, "what can")
    THEN "help"
    ELSE "other"

\* A faulty variant of NoToolsResponse: the prompt is not echoed.
NoToolsResponseNoEcho(text) ==
    "I analyzed your question but didn't need to use any tools."

\* Line 357.
NoToolsResponse(text) ==
    "I analyzed your question but didn't need to use any tools.\n\nYou asked: '"
        \o text \o "'"

\* A faulty variant of ParseErrorResponse: the error alone is returned.
ParseErrorOnly(json_text, message) ==
    "LLM Response (JSON parsing error): " \o message

\* Line 360.
ParseErrorResponse(json_text, message) ==
    "LLM Response (JSON parsing error): " \o json_text \o "\nError: " \o message

\* A faulty variant of DatasetsResponse: the list is shown by str().
DatasetsResponseRepr(datasets) ==
    "Here are your datasets: "
        \o (IF Len(datasets) > 0 THEN StrOfList(ListStr(datasets))
            ELSE "No datasets found")

\* Line 376.
DatasetsResponse(datasets) ==
    "Here are your datasets: "
        \o (IF Len(datasets) > 0 THEN JoinStr(datasets, ", ") ELSE "No datasets found")

\* Line 383.
RowsResponse(table_output) ==
    "First 10 rows of " \o TABLE_ID \o " table:\n" \o table_output

\* Lines 387-396.
HelpResponse(text) ==
    "I'm an AI agent connected to your BigQuery data through an MCP server. \n"
        \o "I can help you explore your data in the " \o DATASET_ID
        \o " dataset, specifically the " \o TABLE_ID \o " table.\n"
        \o "For best results, please configure your GOOGLE_API_KEY in the .env file to enable full LLM-powered analysis.\n"
        \o "Try asking questions like:\n"
        \o "- 'What datasets do I have?'\n"
        \o "- 'Show me the first 10 rows of data'\n"
        \o "- 'How many rows are in my table?'\n"
        \o "- 'What stocks have a valid industry?'\n\n"
        \o "You asked: '" \o text \o "'"

\* Lines 400-403.
ConfigureResponse(text) ==
    "For more intelligent analysis of your query: '" \o text \o "', \n"
        \o "please configure your GOOGLE_API_KEY in the .env file. \n"
        \o "This will enable the LLM to understand your question and generate appropriate SQL queries.\n"
        \o "Currently, I can help with basic dataset listing. For advanced analysis, LLM configuration is required."

\* Line 405.
OuterHandler(message) == "Error running agent: " \o message

\* Lines 346-355: the plain relay of the results.
RelayResponse(rs) ==
    LET formatted_results ==
            [i \in 1..Len(rs) |->
                IF rs[i].tool = "execute_sql"
                THEN rs[i].tool \o ":\n" \o format_sql_results_as_table(rs[i].result)
                ELSE rs[i].tool \o ": " \o PyRepr(rs[i].result)]
    IN  "Based on your question, I used the following tools:\n"
            \o JoinStr(formatted_results, "\n")

\* str(value), as an f-string shows a scalar.
StrOf(value) == value.s

\* Lines 298-300: the numbered lines of the sector list.
SectorLines(rows) ==
    [i \in 1..Len(rows) |->
        ToString(i) \o ". " \o StrOf(DictGet(rows[i], "Sector", PyStr("Unknown")))
            \o "\n"]

\* A faulty variant of SectorAnalysis: the list is not cut after ten rows.
SectorAnalysisUncut(rows) ==
    "**Sector Analysis:**\n\n"
        \o "This query reveals the different industrial sectors represented in the IndianAPI dataset.\n\n"
        \o "**Total sectors identified**: " \o ToString(Len(rows)) \o "\n\n"
        \o "**Sector List:**\n"
        \o JoinStr(SectorLines(rows), "")
        \o (IF Len(rows) > 10
            THEN "... and " \o ToString(Len(rows) - 10) \o " more sectors\n\n"
            ELSE "")
        \o "**Analysis Observations:**\n"

\* Lines 290-313.
SectorAnalysis(rows) ==
    "**Sector Analysis:**\n\n"
        \o "This query reveals the different industrial sectors represented in the IndianAPI dataset.\n\n"
        \o "**Total sectors identified**: " \o ToString(Len(rows)) \o "\n\n"
        \o "**Sector List:**\n"
        \o JoinStr(SectorLines(SubSeq(rows, 1, IF Len(rows) > 10 THEN 10 ELSE Len(rows))), "")
        \o (IF Len(rows) > 10
            THEN "... and " \o ToString(Len(rows) - 10) \o " more sectors\n\n"
            ELSE "")
        \o "**Analysis Observations:**\n"
        \o "- The dataset covers a diverse range of industrial sectors\n"
        \o "- Major sectors include Industrials, Technology, and Basic Materials\n"
        \o "- Sector diversity indicates comprehensive market coverage\n\n"
        \o "**Recommended Actions:**\n"
        \o "- Analyze sector distribution and representation\n"
        \o "- Compare performance across different sectors\n"
        \o "- Identify sector-specific investment opportunities\n\n"

\* Lines 325-337.
TableSummary(info) ==
    "**Table Summary:**\n\n"
        \o "- **Table Name**: " \o StrOf(DictGet(info, "table_id", PyStr("Unknown"))) \o "\n"
        \o "- **Number of Rows**: " \o StrOf(DictGet(info, "num_rows", PyStr("Unknown"))) \o "\n"
        \o "- **Number of Columns**: " \o StrOf(DictGet(info, "num_columns", PyStr("Unknown"))) \o "\n\n"
        \o "**Table Characteristics:**\n"
        \o "This table contains Indian stock market data with comprehensive financial and technical analysis information.\n\n"
        \o "**Data Structure:**\n"
        \o "- Stock identification information (tickers, company names)\n"
        \o "- Sector and industry classifications\n"
        \o "- Technical trading indicators and recommendations\n"
        \o "- Price data and performance metrics\n\n"

\* Lines 275-283: the result the analysis is built on: that of the last
\* get_table_info or execute_sql entry of the results, None without one.
QueryResults(rs) ==
    LET picks == {i \in 1..Len(rs) : rs[i].tool \in {"get_table_info", "execute_sql"}}
    IN  IF picks = {} THEN NoValue
        ELSE rs[CHOOSE i \in picks : \A k \in picks : i >= k].result

\* Lines 272-341: the analytical rendering of the results.
AnalysisResponse(text, rs) ==
    LET query_results == QueryResults(rs)
    IN  "## Analysis Results\n\n"
            \o (IF query_results.kind = "list_dict" /\ Len(query_results.val) > 0
                THEN IF ~HasKey(query_results.val[1], "error")
                     THEN IF /\ Contains(lower(text), "sector")
                             /\ \E j \in 1..Len(query_results.val[1]) :
                                   Contains(query_results.val[1][j][1], "Sector")
                          THEN SectorAnalysis(query_results.val)
                          ELSE "**Query Results:**\n\n"
                                   \o format_sql_results_as_table(query_results)
                                   \o "\n\n"
                     ELSE "Unable to retrieve query results for detailed analysis.\n\n"
                ELSE IF query_results.kind = "dict" /\ HasKey(query_results.val, "table_id")
                THEN TableSummary(query_results.val)
                ELSE "No data found for the requested analysis.\n\n")

----------------------------------------------------------------------------
(* The requests: the prompts, and the ways the model answers the decision  *)
(* call.  A reply is                                                       *)
(*   "unconfigured"  importing or configuring the client raises before the *)
(*                   call (lines 138-206)                                  *)
(*   "raises"        the call raises (line 209)                            *)
(*   "text"          the call returns a text whose extracted part is not   *)
(*                   JSON                                                  *)
(*   "shape"         the text is JSON but no object: .get raises (line 224)*)
(*   "decision"      the text is a JSON object; calls is its tool_calls    *)

NoReply == [kind |-> "none", calls |-> <<>>, text |-> "", msg |-> ""]

NonJsonTexts ==
    { "Sorry, I cannot answer that.",
      "  Here you go: {tool_calls: none} \n",
      "~~~json\n{'tool_calls': []}\n~~~" }

Replies(batches) ==
    { [kind |-> "unconfigured", calls |-> <<>>, text |-> "",
       msg |-> "No module named 'google.generativeai'"],
      [kind |-> "raises", calls |-> <<>>, text |-> "",
       msg |-> "429 Resource has been exhausted"],
      [kind |-> "shape", calls |-> <<>>, text |-> "[]",
       msg |-> "'list' object has no attribute 'get'"] }
        \cup { [kind |-> "text", calls |-> <<>>, text |-> t, msg |-> ""] :
                  t \in NonJsonTexts }
        \cup { [kind |-> "decision", calls |-> batch, text |-> "", msg |-> ""] :
                  batch \in batches }

PromptPool ==
    { Call("list_dataset_ids", NoKwargs),
      Call("get_dataset_info", [dataset_id |-> DATASET_ID, project_id |-> PROJECT_ID]),
      Call("get_table_info", [dataset_id |-> DATASET_ID, table_id |-> TABLE_ID]),
      Call("get_table_info", [project_id |-> PROJECT_ID, dataset_id |-> DATASET_ID,
                              table_id |-> TABLE_ID, location |-> "US"]),
      Call("get_table_info", [project_id |-> PROJECT_ID, table_id |-> TABLE_ID]),
      Call("list_table_ids", [dataset_id |-> DATASET_ID, project_id |-> PROJECT_ID]),
      Call("execute_sql", [query |-> SqlGood]),
      Call("execute_sql", [query |-> SqlOther]),
      Call("execute_sql", [query |-> SqlBad]),
      Call("execute_sql", NoKwargs) }

PromptBatches == SeqsUpTo(PromptPool, MaxPromptCalls)

DispatchPrompts == {"List my tables", "Summarize the table"}

Prompts ==
    { "What datasets do I have?",
      "LIST DATASETS",
      "Show me the first 10 rows",
      "Show me the first 10 rows of data",
      "Show me IndianAPI rows",
      "Display data",
      "help",
      "What can you do?",
      "How many rows are in my table?",
      "Run the analyzer",
      "Please analyze the sectors",
      "Summarize the table",
      "List the sectors" }

----------------------------------------------------------------------------
(* run_agent (lines 128-405).                                              *)

NoExc == [where |-> "none", at |-> 0, msg |-> "", by |-> "none"]

\* The state in which run_agent is called with one of the prompts, the
\* model answering in one of the ways of Replies(batches).  Without
\* GOOGLE_API_KEY the model is not asked.
AgentInit(prompts, batches) ==
    /\ apiKey \in BOOLEAN
    /\ client \in {"none", "ok", "down"}
    /\ prompt \in prompts
    /\ reply \in (IF apiKey THEN Replies(batches) ELSE {NoReply})
    /\ llmCalls = 0
    /\ escaped = FALSE
    /\ tool_calls = <<>>
    /\ idx = 1
    /\ results = <<>>
    /\ bqLog = <<>>
    /\ exc = NoExc
    /\ response = ""

PlanIdle ==
    /\ ppc = "idle"
    /\ provider = "gemini"
    /\ openaiKey = FALSE
    /\ enh = NoReply
    /\ presponse = ""

FormatIdle ==
    /\ fin = ListDict(<<>>)
    /\ fout = ""
    /\ fpc = "idle"

\* A model text in parts: prose, a fenced block (inside: the object it
\* holds), and what follows it (last: the object the text ends with).
TextParts(lead, block, inside, tail, last) ==
    [lead |-> lead, block |-> block, inside |-> inside, tail |-> tail, last |-> last]

TextOf(x) == x.lead \o x.block \o x.tail

ExtractIdle ==
    /\ xin = TextParts("", "", "", "", "")
    /\ xout = ""
    /\ xpc = "idle"

ChatIdle ==
    /\ messages = <<>>
    /\ upc = "off"

\* The functions and the page that a specification does not exercise.
SideIdle == FormatIdle /\ ExtractIdle /\ ChatIdle

Init ==
    /\ pc = "start"
    /\ AgentInit(DispatchPrompts, Batches)
    /\ PlanIdle
    /\ SideIdle

\* A faulty variant of Handler: the handler of line 361 takes JSON errors
\* only and the one of line 404 is absent.
HandlerNarrow(site) == "none"

\* The handler that takes an exception raised at a site of run_agent: the
\* except Exception of line 361 encloses the model call, the parsing and the
\* dispatch loop (lines 136-357); the one of line 404 encloses everything
\* from line 133 on.
Handler(site) ==
    IF site \in {"llm", "shape", "tool"} THEN "inner" ELSE "outer"

\* A faulty variant of AfterInnerHandler: the request is tried again.
RetryAfterFailure == "start"

\* A faulty variant of AfterInnerHandler: the response is built from the
\* results collected before the failure.
RespondAfterFailure == "respond"

\* Lines 361-370: the handler logs the exception and passes; control
\* continues at the fallback of line 370.
AfterInnerHandler == "fallback"

\* An exception raised at a site: the handler of line 361 swallows it, the
\* handler of line 404 returns its message, or it leaves run_agent.
Raised(site, at, message) ==
    LET by == Handler(site)
    IN  /\ exc' = [where |-> site, at |-> at, msg |-> message, by |-> by]
        /\ pc' = IF by = "inner" THEN AfterInnerHandler ELSE "done"
        /\ response' = IF by = "outer" THEN OuterHandler(message) ELSE response
        /\ escaped' = (by = "none")

\* Line 135: without GOOGLE_API_KEY the model is not called.
Start ==
    /\ pc = "start"
    /\ pc' = IF apiKey THEN "llm" ELSE "fallback"
    /\ UNCHANGED <<inputVars, llmCalls, escaped, tool_calls, idx, results, bqLog,
                   exc, response>>
    /\ UNCHANGED <<planVars, sideVars>>

\* Lines 138-206: importing or configuring the model client raises; the
\* model is not called.
ModelUnconfigured ==
    /\ pc = "llm"
    /\ reply.kind = "unconfigured"
    /\ Raised("llm", 0, reply.msg)
    /\ UNCHANGED <<inputVars, llmCalls, tool_calls, idx, results, bqLog>>
    /\ UNCHANGED <<planVars, sideVars>>

\* Line 209: the call of the model raises.
ModelRaises ==
    /\ pc = "llm"
    /\ reply.kind = "raises"
    /\ llmCalls' = llmCalls + 1
    /\ Raised("llm", 0, reply.msg)
    /\ UNCHANGED <<inputVars, tool_calls, idx, results, bqLog>>
    /\ UNCHANGED <<planVars, sideVars>>

\* Lines 209-223, 358-360: the text extracted from the model's answer is
\* not JSON; the handler of line 358 returns the text and the error.
ModelNotJson ==
    /\ pc = "llm"
    /\ reply.kind = "text"
    /\ llmCalls' = llmCalls + 1
    /\ LET response_text == strip(reply.text)
           json_text == strip(extract_json_from_response(response_text))
       IN  response' = ParseErrorResponse(json_text, JsonDecodeError(json_text))
    /\ pc' = "done"
    /\ UNCHANGED <<inputVars, escaped, tool_calls, idx, results, bqLog, exc>>
    /\ UNCHANGED <<planVars, sideVars>>

\* Lines 209-224: the text is JSON but not an object, and .get raises.
ModelBadShape ==
    /\ pc = "llm"
    /\ reply.kind = "shape"
    /\ llmCalls' = llmCalls + 1
    /\ Raised("shape", 0, reply.msg)
    /\ UNCHANGED <<inputVars, tool_calls, idx, results, bqLog>>
    /\ UNCHANGED <<planVars, sideVars>>

\* Lines 209-229: the decision parses; the loop starts on its tool_calls.
ModelDecides ==
    /\ pc = "llm"
    /\ reply.kind = "decision"
    /\ llmCalls' = llmCalls + 1
    /\ tool_calls' = reply.calls
    /\ idx' = 1
    /\ results' = <<>>
    /\ pc' = "dispatch"
    /\ UNCHANGED <<inputVars, escaped, bqLog, exc, response>>
    /\ UNCHANGED <<planVars, sideVars>>

\* Lines 230-262: one iteration of the loop, the tool returning.
DispatchStep ==
    /\ pc = "dispatch"
    /\ idx <= Len(tool_calls)
    /\ LET tool_name == tool_calls[idx].name
           out == InvokeToolCall(tool_name, tool_calls[idx].arguments, client)
       IN  /\ ~out.raised
           /\ results' = AppendResult(results, tool_name, out.val)
           /\ bqLog' = bqLog \o [i \in 1..Len(out.bq) |->
                                    [at |-> idx, call |-> out.bq[i]]]
    /\ idx' = idx + 1
    /\ UNCHANGED <<pc, inputVars, llmCalls, escaped, tool_calls, exc, response>>
    /\ UNCHANGED <<planVars, sideVars>>

\* Lines 230-262 and 361-366: one iteration of the loop, the tool call
\* raising.  No handler stands inside the loop: the exception leaves it and
\* is swallowed by the handler of line 361, which falls through to line 368.
DispatchRaises ==
    /\ pc = "dispatch"
    /\ idx <= Len(tool_calls)
    /\ LET out == InvokeToolCall(tool_calls[idx].name, tool_calls[idx].arguments,
                                 client)
       IN  /\ out.raised
           /\ Raised("tool", idx, out.msg)
           /\ bqLog' = bqLog \o [i \in 1..Len(out.bq) |->
                                    [at |-> idx, call |-> out.bq[i]]]
    /\ UNCHANGED <<inputVars, llmCalls, tool_calls, idx, results>>
    /\ UNCHANGED <<planVars, sideVars>>

\* Line 230: the loop ends after the last call.
DispatchEnds ==
    /\ pc = "dispatch"
    /\ idx > Len(tool_calls)
    /\ pc' = "respond"
    /\ UNCHANGED <<inputVars, llmCalls, escaped, tool_calls, idx, results, bqLog,
                   exc, response>>
    /\ UNCHANGED <<planVars, sideVars>>

\* Lines 265-357: the response built from the results.  The prompt decides
\* between the analytical and the plain rendering (line 268).
Respond ==
    /\ pc = "respond"
    /\ response' = IF Len(results) = 0 THEN NoToolsResponse(prompt)
                   ELSE IF is_analysis_query(prompt)
                   THEN AnalysisResponse(prompt, results)
                   ELSE RelayResponse(results)
    /\ pc' = "done"
    /\ UNCHANGED <<inputVars, llmCalls, escaped, tool_calls, idx, results, bqLog,
                   exc>>
    /\ UNCHANGED <<planVars, sideVars>>

\* A call made on bq_client outside the loop (position 0).
DirectCall(op, args, r) ==
    [at |-> 0,
     call |-> [op |-> op, args |-> args, raised |-> r.raised,
               ret |-> IF r.raised THEN NoValue ELSE r.val]]

\* A faulty variant of FallbackCall: the datasets are listed for any prompt
\* that is not about sample rows.
FallbackCallEager(intent) ==
    IF intent = "rows" THEN "execute_query" ELSE "list_datasets"

\* Lines 375, 381: the method of bq_client a branch of the fallback calls.
FallbackCall(intent) ==
    IF intent = "datasets" THEN "list_datasets"
    ELSE IF intent = "rows" THEN "execute_query"
    ELSE "none"

\* Lines 370-405: the keyword fallback.  The prompt decides the intent; the
\* dataset and the sample-rows intents call bq_client, and an exception is
\* turned into the "Error running agent" text by the handler of line 404.
Fallback ==
    /\ pc = "fallback"
    /\ \E prompt_lower \in {lower(prompt)} :
       \E intent \in {FallbackIntent(prompt_lower)} :
       \E op \in {FallbackCall(intent)} :
       LET r == IF op = "list_datasets" THEN bq_list_datasets(client)
                ELSE IF op = "execute_query"
                THEN bq_execute_query(client, SampleRowsQuery)
                ELSE Ret(NoValue)
       IN  /\ bqLog' =
                IF op = "list_datasets"
                THEN Append(bqLog, DirectCall(op, <<>>, r))
                ELSE IF op = "execute_query"
                THEN Append(bqLog, DirectCall(op, <<SampleRowsQuery>>, r))
                ELSE bqLog
           /\ IF r.raised
              THEN Raised("fallback", 0, r.msg)
              ELSE /\ response' =
                        IF intent = "datasets" THEN DatasetsResponse(r.val.val)
                        ELSE IF intent = "rows"
                        THEN RowsResponse(format_sql_results_as_table(r.val))
                        ELSE IF intent = "help" THEN HelpResponse(prompt)
                        ELSE ConfigureResponse(prompt)
                   /\ pc' = "done"
                   /\ UNCHANGED <<exc, escaped>>
    /\ UNCHANGED <<inputVars, llmCalls, tool_calls, idx, results>>
    /\ UNCHANGED <<planVars, sideVars>>

Next ==
    \/ Start
    \/ ModelUnconfigured
    \/ ModelRaises
    \/ ModelNotJson
    \/ ModelBadShape
    \/ ModelDecides
    \/ DispatchStep
    \/ DispatchRaises
    \/ DispatchEnds
    \/ Respond
    \/ Fallback

Spec == Init /\ [][Next]_vars

\* run_agent on the prompts of Prompts, the model deciding on short batches.
InitPrompt ==
    /\ pc = "start"
    /\ AgentInit(Prompts, PromptBatches)
    /\ PlanIdle
    /\ SideIdle

SpecPrompt == InitPrompt /\ [][Next]_vars

\* run_agent on prompts that take the analytical path of lines 270-341 (and
\* one that does not), the model deciding on batches of the tools whose
\* results the analysis reads.
AnalysisPrompts ==
    {"Summarize the table", "Please analyze the sectors", "List the sectors"}

AnalysisPool ==
    { Call("list_dataset_ids", NoKwargs),
      Call("get_table_info", [dataset_id |-> DATASET_ID, table_id |-> TABLE_ID]),
      Call("get_table_info", [dataset_id |-> DATASET_ID, table_id |-> OtherTable]),
      Call("execute_sql", [query |-> SqlGood]),
      Call("execute_sql", [query |-> SqlOther]),
      Call("execute_sql", [query |-> SqlAliased]),
      Call("execute_sql", [query |-> SqlBad]),
      Call("execute_sql", NoKwargs) }
        \cup { Call("execute_sql", [query |-> SectorQuery(n)]) : n \in SectorCounts }

AnalysisBatches == SeqsUpTo(AnalysisPool, MaxAnalysisCalls)

InitAnalysis ==
    /\ pc = "start"
    /\ AgentInit(AnalysisPrompts, AnalysisBatches)
    /\ PlanIdle
    /\ SideIdle

SpecAnalysis == InitAnalysis /\ [][Next]_vars

----------------------------------------------------------------------------
(* run_planning_agent (src/src/planning_agent.py).  It classifies the      *)
(* query, awaits run_agent, and for a complex query asks the model of the  *)
(* configured provider for an analysis of what run_agent returned.         *)

\* Lines 60-64.
complex_keywords ==
    <<"analyze", "analysis", "compare", "trend", "pattern", "insight",
      "relationship", "correlation", "forecast", "predict", "summary",
      "recommend", "suggestion", "why", "how", "explain", "understand">>

\* A faulty variant of needs_complex_reasoning: keyword in query_lower.
needs_complex_reasoning_by_substring(query) ==
    \E query_lower \in {lower(query)} :
        \E i \in 1..Len(complex_keywords) : Contains(query_lower, complex_keywords[i])

\* Lines 55-74: _needs_complex_reasoning.
needs_complex_reasoning(query) ==
    \E query_lower \in {lower(query)} :
        \E i \in 1..Len(complex_keywords) : WordSearch(query_lower, complex_keywords[i])

\* Line 94.
CanEnhance ==
    (provider = "gemini" /\ apiKey) \/ (provider = "openai" /\ openaiKey)

\* Lines 99-103.
NoKeyNote ==
    IF provider = "gemini" /\ ~apiKey
    THEN "Note: For detailed analysis and insights, please configure your GOOGLE_API_KEY in the .env file.\n\n"
    ELSE IF provider = "openai" /\ ~openaiKey
    THEN "Note: For detailed analysis and insights, please configure your OPENAI_API_KEY in the .env file.\n\n"
    ELSE ""

\* Lines 137-142.
EnhancedResponse(sql_response, response_text) ==
    "## Original Response\n" \o sql_response \o "\n\n## Enhanced Analysis\n"
        \o response_text \o "\n"

\* A faulty variant of ReasoningFailure: the note alone is returned.
ReasoningFailureNoteOnly(sql_response, message) ==
    "## Analysis\nUnable to generate enhanced analysis due to: " \o message
        \o "\n\nThe raw data from the SQL query is shown above.\n"

\* Lines 145-155.
ReasoningFailure(sql_response, message) ==
    "## Original Response\n" \o sql_response
        \o "\n\n## Analysis\nUnable to generate enhanced analysis due to: "
        \o message \o "\n\nThe raw data from the SQL query is shown above.\n"

\* The ways the model answers the enhancement call: it raises, or returns
\* a text.
EnhanceReplies ==
    { [kind |-> "raises", calls |-> <<>>, text |-> "",
       msg |-> "503 The model is overloaded"],
      [kind |-> "text", calls |-> <<>>, text |-> "### Key Insights\n- none",
       msg |-> ""] }

PlanPrompts ==
    { "please analyze this",
      "I want to re-analyzer this",
      "What datasets do I have?",
      "Why?",
      "Show me the TRENDS",
      "Explain the trend",
      "somehow",
      "how_many rows" }

PlanPool ==
    { Call("list_dataset_ids", NoKwargs),
      Call("get_table_info", [dataset_id |-> DATASET_ID, table_id |-> TABLE_ID]),
      Call("execute_sql", [query |-> SqlGood]),
      Call("execute_sql", NoKwargs) }

PlanBatches == SeqsUpTo(PlanPool, MaxPlanCalls)

\* llm_manager.py, lines 48-65: the module is imported only when the key of
\* the selected provider is set.
ManagerConfigured ==
    \E p \in {lower(provider)} :
        (p = "gemini" /\ apiKey) \/ (p = "openai" /\ openaiKey)

InitPlan ==
    /\ pc = "idle"
    /\ AgentInit(PlanPrompts, PlanBatches)
    /\ ppc = "start"
    /\ provider \in {"gemini", "openai", "Gemini"}
    /\ openaiKey \in BOOLEAN
    /\ ManagerConfigured
    /\ enh \in EnhanceReplies
    /\ presponse = ""
    /\ SideIdle

\* Lines 46-53, 81, 91: the query is classified and run_agent is called.
PlanClassify ==
    /\ ppc = "start"
    /\ ppc' = IF needs_complex_reasoning(prompt) THEN "complex" ELSE "simple"
    /\ pc' = "start"
    /\ UNCHANGED <<inputVars, llmCalls, escaped, tool_calls, idx, results, bqLog,
                   exc, response>>
    /\ UNCHANGED <<provider, openaiKey, enh, presponse, sideVars>>

\* A faulty variant of FirstStageReturned: the second stage does not wait
\* for run_agent.
FirstStageStarted == pc # "idle" /\ ~escaped

\* Lines 81 and 91: `await run_agent(query)` has returned a response.
FirstStageReturned == pc = "done" /\ ~escaped

\* Lines 81-82: a simple query: what run_agent returned is returned.
PlanRelay ==
    /\ ppc = "simple"
    /\ FirstStageReturned
    /\ presponse' = response
    /\ ppc' = "done"
    /\ UNCHANGED <<agentVars, provider, openaiKey, enh, sideVars>>

\* Lines 91-105: a complex query without the key of the provider.
PlanNoKey ==
    /\ ppc = "complex"
    /\ FirstStageReturned
    /\ ~CanEnhance
    /\ presponse' = NoKeyNote \o response
    /\ ppc' = "done"
    /\ UNCHANGED <<agentVars, provider, openaiKey, enh, sideVars>>

\* Lines 91-95, 111-143: a complex query, the enhancement call returning.
AddReasoningReturns ==
    /\ ppc = "complex"
    /\ FirstStageReturned
    /\ CanEnhance
    /\ enh.kind = "text"
    /\ llmCalls' = llmCalls + 1
    /\ presponse' = EnhancedResponse(response, enh.text)
    /\ ppc' = "done"
    /\ UNCHANGED <<pc, inputVars, escaped, tool_calls, idx, results, bqLog, exc,
                   response>>
    /\ UNCHANGED <<provider, openaiKey, enh, sideVars>>

\* Lines 91-95, 111-134, 145-155: a complex query, the enhancement call
\* raising; the handler of line 145 returns the first response and a note.
AddReasoningFails ==
    /\ ppc = "complex"
    /\ FirstStageReturned
    /\ CanEnhance
    /\ enh.kind = "raises"
    /\ llmCalls' = llmCalls + 1
    /\ presponse' = ReasoningFailure(response, enh.msg)
    /\ ppc' = "done"
    /\ UNCHANGED <<pc, inputVars, escaped, tool_calls, idx, results, bqLog, exc,
                   response>>
    /\ UNCHANGED <<provider, openaiKey, enh, sideVars>>

NextPlan ==
    \/ PlanClassify
    \/ Start
    \/ ModelUnconfigured
    \/ ModelRaises
    \/ ModelNotJson
    \/ ModelBadShape
    \/ ModelDecides
    \/ DispatchStep
    \/ DispatchRaises
    \/ DispatchEnds
    \/ Respond
    \/ Fallback
    \/ PlanRelay
    \/ PlanNoKey
    \/ AddReasoningReturns
    \/ AddReasoningFails

SpecPlan == InitPlan /\ [][NextPlan]_vars

----------------------------------------------------------------------------
(* Properties of the dispatch loop.                                        *)

Positions == 1..Len(tool_calls)

\* Call i has been started: it returned, or it raised.
Attempted(i) == i < idx \/ (exc.where = "tool" /\ exc.at = i)
RaisedAt(i) == exc.where = "tool" /\ exc.at = i

\* The calls made on bq_client by call i of the batch.
LogAt(i) == SelectSeq(bqLog, LAMBDA e : e.at = i)

StartsWith(text, prefix) ==
    Len(text) >= Len(prefix) /\ SubSeq(text, 1, Len(prefix)) = prefix

\* A mapping with key error, a list holding one such mapping, or a list
\* holding an "Error: ..." string.
ErrorShaped(v) ==
    \/ v.kind = "dict" /\ HasKey(v.val, "error")
    \/ v.kind = "list_dict" /\ Len(v.val) = 1 /\ HasKey(v.val[1], "error")
    \/ v.kind = "list_str" /\ Len(v.val) = 1 /\ StartsWith(v.val[1], "Error: ")

\* A call naming a registered tool with exactly the parameters it declares.
WellFormedCall(c) ==
    c.name \in ToolNames /\ DOMAIN c.arguments = ToolParams(c.name)

WellFormedBatch == \A i \in Positions : WellFormedCall(tool_calls[i])

\* C1: for a well-formed batch no call raises, the results list grows by one
\* {tool, result} entry per call, entry i carries the name of call i, and
\* when the loop has ended there are as many entries as calls.
C1_DispatchKeepsLengthAndOrder ==
    WellFormedBatch =>
        /\ exc.where # "tool"
        /\ Len(results) = idx - 1
        /\ \A i \in 1..Len(results) : results[i].tool = tool_calls[i].name
        /\ pc \in {"respond", "done"} => Len(results) = Len(tool_calls)

C1_Witness ==
    /\ pc = "respond"
    /\ WellFormedBatch
    /\ Len(tool_calls) >= 2
    /\ tool_calls[1].name # tool_calls[2].name
    /\ Len(results) = Len(tool_calls)

\* C2: a call whose name is not registered never raises and never reaches
\* bq_client; once passed, its entry is {"error": "Unknown tool: <name>"};
\* the loop goes on to the calls after it, and every other entry is the
\* named tool with what bq_client returned for that call alone.
C2_UnknownToolYieldsErrorInPlace ==
    \A i \in Positions :
        tool_calls[i].name \notin ToolNames =>
            /\ ~RaisedAt(i)
            /\ LogAt(i) = <<>>
            /\ i < idx =>
                 /\ results[i].tool = tool_calls[i].name
                 /\ results[i].result.kind = "dict"
                 /\ results[i].result.val =
                        << <<"error", PyStr("Unknown tool: " \o tool_calls[i].name)>> >>
                 /\ pc = "dispatch" \/ idx > Len(tool_calls) \/ exc.where = "tool"
                 /\ \A j \in (1..Len(results)) \ {i} :
                        tool_calls[j].name \in ToolNames =>
                            /\ results[j].tool = tool_calls[j].name
                            /\ Len(LogAt(j)) = 1
                            /\ results[j].result = LogAt(j)[1].call.ret

C2_Witness ==
    /\ pc = "respond"
    /\ Len(results) = 3
    /\ tool_calls[1].name = "list_dataset_ids"
    /\ tool_calls[2].name = "bogus"
    /\ tool_calls[3].name = "execute_sql"
    /\ ErrorShaped(results[2].result)
    /\ ~ErrorShaped(results[1].result)
    /\ ~ErrorShaped(results[3].result)

\* C3: an exception raised by a tool call is wrapped as that call's result
\* {"error": str(exception)}, and none leaves the dispatch loop.
C3_ToolExceptionsAreWrapped ==
    /\ exc.where # "tool"
    /\ \A i \in Positions :
          (Attempted(i)
             /\ InvokeToolCall(tool_calls[i].name, tool_calls[i].arguments,
                               client).raised)
          => (i <= Len(results) /\ ErrorShaped(results[i].result))

\* The warehouse request behind a call on bq_client fails.
CollaboratorFails(c, call) ==
    \/ c = "none"
    \/ call.op = "list_datasets" /\ BackendListDatasets(c).raised
    \/ call.op = "get_dataset_info" /\ BackendGetDataset(c, call.args[1]).raised
    \/ call.op = "list_tables" /\ BackendListTables(c, call.args[1]).raised
    \/ call.op = "get_table_info"
          /\ BackendGetTable(c, call.args[1], call.args[2]).raised
    \/ call.op = "execute_query" /\ BackendQuery(c, call.args[1]).raised

\* C4: when bq_client fails inside a tool call (no client, the warehouse
\* unreachable, a malformed query) the method returns an error-shaped value,
\* which becomes the call's result, and the loop goes on to the next call.
C4_CollaboratorFailureIsAResult ==
    \A k \in 1..Len(bqLog) :
        LET e == bqLog[k]
        IN  (e.at >= 1 /\ CollaboratorFails(client, e.call)) =>
                /\ ~e.call.raised
                /\ ErrorShaped(e.call.ret)
                /\ ~RaisedAt(e.at)
                /\ e.at <= Len(results)
                /\ results[e.at].result = e.call.ret
                /\ (pc # "dispatch" /\ e.at < Len(tool_calls)) => Attempted(e.at + 1)

C4_Witness ==
    /\ client = "ok"
    /\ Len(results) >= 2
    /\ tool_calls[1] = Call("execute_sql", [query |-> SqlBad])
    /\ ErrorShaped(results[1].result)
    /\ tool_calls[2].name = "list_dataset_ids"
    /\ ~ErrorShaped(results[2].result)

\* C5: an execute_sql call with none of query, sql and sql_query gives an
\* error result for that call and does not raise out of the loop.
C5_MissingQueryIsAnErrorResult ==
    \A i \in Positions :
        (Attempted(i)
           /\ tool_calls[i].name = "execute_sql"
           /\ (DOMAIN tool_calls[i].arguments) \cap {"query", "sql", "sql_query"} = {})
        => /\ ~RaisedAt(i)
           /\ i <= Len(results)
           /\ ErrorShaped(results[i].result)

SqlAliases == {"sql", "sql_query", "query"}

\* C6: execute_sql called with {"sql": s}, {"sql_query": s} or {"query": s}
\* makes exactly the call execute_query(s) on bq_client, and its result is
\* what execute_query(s) returns, whichever of the three keys carried s.
C6_SqlAliasesDispatchAlike ==
    \A i \in Positions :
        \A key \in SqlAliases :
            (Attempted(i)
               /\ tool_calls[i].name = "execute_sql"
               /\ DOMAIN tool_calls[i].arguments = {key})
            => LET s == tool_calls[i].arguments[key]
               IN  /\ ~RaisedAt(i)
                   /\ Len(LogAt(i)) = 1
                   /\ LogAt(i)[1].call.op = "execute_query"
                   /\ LogAt(i)[1].call.args = <<s>>
                   /\ results[i].tool = "execute_sql"
                   /\ results[i].result = LogAt(i)[1].call.ret
                   /\ results[i].result = bq_execute_query(client, s).val

C6_Witness ==
    /\ Len(results) = 3
    /\ {DOMAIN tool_calls[i].arguments : i \in 1..3} = {{"sql"}, {"sql_query"}, {"query"}}
    /\ \A i \in 1..3 : tool_calls[i].name = "execute_sql"
    /\ results[1] = results[2]
    /\ results[2] = results[3]
    /\ client = "ok"
    /\ ~ErrorShaped(results[1].result)

\* C7: with both sql and query among the arguments of an execute_sql call,
\* execute_query is called on bq_client with the value of query.
C7_ExplicitQueryIsUsed ==
    \A i \in Positions :
        (Attempted(i)
           /\ tool_calls[i].name = "execute_sql"
           /\ {"sql", "query"} \subseteq DOMAIN tool_calls[i].arguments)
        => /\ Len(LogAt(i)) = 1
           /\ LogAt(i)[1].call.op = "execute_query"
           /\ LogAt(i)[1].call.args = <<tool_calls[i].arguments["query"]>>

----------------------------------------------------------------------------
(* The formatter on its own: called once on one argument.                  *)

RECURSIVE Digits(_)
\* "1234567890123..." cut to n characters.
Digits(n) ==
    IF n = 0 THEN ""
    ELSE Digits(n - 1) \o SubSeq("0123456789", (n % 10) + 1, (n % 10) + 1)

CellValues == {PyStr("TCS"), PyInt("7"), PyBool(TRUE), PyNone}
OtherValues == {PyStr("IT"), PyNone}

RowPool ==
    { << <<"Ticker", v>>, <<"Sector", w>> >> : v \in CellValues, w \in OtherValues }
        \cup { << <<"Sector", w>>, <<"Ticker", v>> >> : v \in CellValues, w \in OtherValues }
        \cup { << <<"Ticker", v>> >> : v \in CellValues }
        \cup { << <<"Sector", w>> >> : w \in OtherValues }
        \cup { << <<"error", PyStr("400 Syntax error")>> >>,
               << <<"Ticker", PyStr("TCS")>>, <<"error", PyStr("timeout")>> >> }

FormatInputs ==
    { ListDict(rows) : rows \in SeqsUpTo(RowPool, MaxRows) }
        \cup { ListDict(<< << <<"Name", PyStr(Digits(n))>> >> >>) : n \in 0..MaxStrLen }
        \cup { ListDict(<< << <<"Volume", PyInt(Digits(n))>> >> >>) : n \in 1..MaxStrLen }
        \cup { ListStr(xs) : xs \in SeqsUpTo({DATASET_ID, "sales"}, MaxRows) \ {<<>>} }

InitFormat ==
    /\ fpc = "call"
    /\ fin \in FormatInputs
    /\ fout = ""
    /\ pc = "idle"
    /\ apiKey = FALSE
    /\ client = "none"
    /\ prompt = ""
    /\ reply = NoReply
    /\ llmCalls = 0
    /\ escaped = FALSE
    /\ tool_calls = <<>>
    /\ idx = 1
    /\ results = <<>>
    /\ bqLog = <<>>
    /\ exc = NoExc
    /\ response = ""
    /\ PlanIdle
    /\ ExtractIdle
    /\ ChatIdle

FormatCall ==
    /\ fpc = "call"
    /\ fout' = format_sql_results_as_table(fin)
    /\ fpc' = "ret"
    /\ UNCHANGED fin
    /\ UNCHANGED <<agentVars, planVars, extVars, chatVars>>

NextFormat == FormatCall

SpecFormat == InitFormat /\ [][NextFormat]_vars

----------------------------------------------------------------------------
(* Properties of the formatter.                                            *)

RECURSIVE SplitOn(_, _)
\* text.split(sep)
SplitOn(text, sep) ==
    LET i == FirstAt(text, sep)
    IN  IF i = 0 THEN <<text>>
        ELSE <<SubSeq(text, 1, i - 1)>>
                 \o SplitOn(SubSeq(text, i + Len(sep), Len(text)), sep)

Lines(text) == SplitOn(text, "\n")

\* The cells of a table line "| c1 | c2 |".
Cells(line) == SplitOn(SubSeq(line, 3, Len(line) - 2), " | ")

IsTableLine(line) ==
    Len(line) >= 4 /\ SubSeq(line, 1, 2) = "| "
        /\ SubSeq(line, Len(line) - 1, Len(line)) = " |"

\* The argument is a non-empty list of row mappings whose first row has no
\* error key.
RendersTable ==
    /\ fpc = "ret"
    /\ fin.kind = "list_dict"
    /\ Len(fin.val) >= 1
    /\ ~HasKey(fin.val[1], "error")

\* C8: the formatter applied to an empty result sequence returns exactly
\* "No results found.".
C8_EmptyGivesNoResultsFound ==
    (fpc = "ret" /\ Len(fin.val) = 0) => fout = "No results found."

C10_CellTruncation ==
    RendersTable =>
        LET columns == DictKeys(fin.val[1])
            lines == Lines(fout)
        IN  \A i \in 1..Len(fin.val) :
                \A j \in 1..Len(columns) :
                    LET value == DictGet(fin.val[i], columns[j], PyStr(""))
                        cell == Cells(lines[i + 2])[j]
                    IN  /\ (value.ty = "str" /\ Len(value.s) <= 50) => cell = value.s
                        /\ (value.ty = "str" /\ Len(value.s) >= 51) =>
                              /\ cell = SubSeq(value.s, 1, 47) \o "..."
                              /\ Len(cell) = 50
                        /\ value.ty = "str" => Len(cell) <= 50
                        /\ value.ty = "none" => cell = "NULL"
                        /\ value.ty \in {"int", "bool"} => cell = value.s

C10_Witness ==
    /\ RendersTable
    /\ fin.val[1][1][2].ty = "str"
    /\ Len(fin.val[1][1][2].s) = 51
    /\ Lines(fout)[3] = "| " \o Digits(47) \o "... |"

\* C11: applied to a list whose first element is a mapping with the key
\* error, the formatter returns "Error: " followed by that element's error
\* message, on one line, with no header, separator or data line, whatever
\* the elements after the first are.
C11_ErrorFirstSuppressesTable ==
    (fpc = "ret" /\ fin.kind = "list_dict" /\ Len(fin.val) >= 1
        /\ HasKey(fin.val[1], "error")) =>
        /\ fout = "Error: " \o DictGet(fin.val[1], "error", PyNone).s
        /\ Len(Lines(fout)) = 1
        /\ ~IsTableLine(fout)
        /\ FirstAt(fout, "---") = 0
        /\ FirstAt(fout, "|") = 0

C11_Witness ==
    /\ fpc = "ret"
    /\ fin.kind = "list_dict"
    /\ Len(fin.val) = 2
    /\ fin.val[1] = << <<"error", PyStr("400 Syntax error")>> >>
    /\ DictKeys(fin.val[2]) = <<"Ticker", "Sector">>
    /\ fout = "Error: 400 Syntax error"

----------------------------------------------------------------------------
(* Properties of the classifiers and of the keyword fallback.              *)

\* The maximal runs of word characters of text: each starts at a word
\* character that no word character precedes and ends before the next
\* character that is none.
Words(text) ==
    LET starts == {i \in 1..Len(text) :
                      /\ IsWordChar(CharAt(text, i))
                      /\ (i = 1 \/ ~IsWordChar(CharAt(text, i - 1)))}
        stops(i) == {k \in i..Len(text) : ~IsWordChar(CharAt(text, k))}
        last(i) == IF stops(i) = {} THEN Len(text)
                   ELSE (CHOOSE k \in stops(i) : \A m \in stops(i) : k <= m) - 1
    IN  {SubSeq(text, i, last(i)) : i \in starts}

\* One of the keywords is a word of the lowercased text.
HasKeywordAsWord(text, keywords) ==
    \E ws \in {Words(lower(text))} : \E i \in 1..Len(keywords) : keywords[i] \in ws

\* run_agent has returned a response built from the results of the batch.
RespondedFromResults ==
    pc = "done" /\ reply.kind = "decision" /\ exc.where = "none" /\ Len(results) > 0

\* C12: a query whose batch gave results takes the analytical path if and
\* only if one of the analytical keywords occurs in it as a whole word: a
\* keyword inside a longer word ("analyze" in "analyzer") leaves the query
\* on the plain relay path.
C12_AnalysisPathByWholeWords ==
    RespondedFromResults =>
        /\ StartsWith(response, "## Analysis Results")
              <=> HasKeywordAsWord(prompt, analysis_keywords)
        /\ StartsWith(response, "Based on your question, I used the following tools:")
              <=> ~HasKeywordAsWord(prompt, analysis_keywords)

\* The planning agent has classified the query and has not returned yet.
Classified == ppc \in {"simple", "complex"}

\* C13: the planning agent's classifier says complex if and only if one of
\* its keywords is a word of the lowercased query: "please analyze this" is
\* complex, "I want to re-analyzer this" is not.
C13_ComplexByWholeWords ==
    Classified =>
        /\ ppc = "complex" <=> HasKeywordAsWord(prompt, complex_keywords)
        /\ prompt = "please analyze this" => ppc = "complex"
        /\ prompt = "I want to re-analyzer this" => ppc = "simple"

C13_Witness ==
    /\ ppc = "simple"
    /\ prompt = "I want to re-analyzer this"
    /\ Contains(lower(prompt), "analyze")

\* The model is unavailable: no key is configured, or setting the model up
\* or calling it raised.
ModelUnavailable ==
    ~apiKey \/ (exc.where = "llm" /\ exc.by = "inner")

\* run_agent went through the fallback of line 370.
EnteredFallback ==
    pc \in {"fallback", "done"} /\ (~apiKey \/ exc.by = "inner")

\* The calls the fallback made on bq_client.
FallbackLog == SelectSeq(bqLog, LAMBDA e : e.at = 0)

\* C14: with the model unavailable, "What datasets do I have?" is answered
\* by "Here are your datasets: " followed by the identifiers list_datasets
\* returned, separated by ", "; list_datasets is called once and no SQL is
\* executed.
C14_DatasetsIntent ==
    (pc = "done" /\ ModelUnavailable /\ prompt = "What datasets do I have?") =>
        /\ Len(FallbackLog) = 1
        /\ FallbackLog[1].call.op = "list_datasets"
        /\ ~FallbackLog[1].call.raised
        /\ StartsWith(response, "Here are your datasets:")
        /\ response = "Here are your datasets: "
                          \o JoinStr(FallbackLog[1].call.ret.val, ", ")
        /\ \A i \in 1..Len(bqLog) : bqLog[i].call.op # "execute_query"

C14_Witness ==
    /\ pc = "done"
    /\ apiKey
    /\ reply.kind = "raises"
    /\ client = "ok"
    /\ prompt = "What datasets do I have?"
    /\ response = "Here are your datasets: IndianAPI, sales"

\* C15: on the fallback path "Show me the first 10 rows" sends one
\* SELECT * ... LIMIT 10 on the configured table to execute_query and
\* returns what it gave, rendered as a table.
C15_SampleRowsIntent ==
    (pc = "done" /\ EnteredFallback /\ prompt = "Show me the first 10 rows") =>
        /\ Len(FallbackLog) = 1
        /\ FallbackLog[1].call.op = "execute_query"
        /\ StartsWith(FallbackLog[1].call.args[1], "SELECT * FROM ")
        /\ Contains(FallbackLog[1].call.args[1], TABLE_ID \o " LIMIT 10")
        /\ Contains(response, format_sql_results_as_table(FallbackLog[1].call.ret))

\* The calls of the model that precede the fallback.
CallsBeforeFallback ==
    IF apiKey /\ reply.kind # "unconfigured" THEN 1 ELSE 0

\* C16: on the fallback path the model is not called, no exception leaves
\* run_agent, and a query that is none of the three intents is answered by
\* the static configure message without a call on bq_client.
C16_FallbackIsStatic ==
    EnteredFallback =>
        /\ llmCalls = CallsBeforeFallback
        /\ ~escaped
        /\ (pc = "done" /\ FallbackIntent(lower(prompt)) = "other") =>
              /\ response = ConfigureResponse(prompt)
              /\ FallbackLog = <<>>

C16_Witness ==
    /\ pc = "done"
    /\ ~apiKey
    /\ llmCalls = 0
    /\ prompt = "How many rows are in my table?"
    /\ bqLog = <<>>
    /\ StartsWith(response, "For more intelligent analysis of your query: 'How many rows")

----------------------------------------------------------------------------
(* Properties of the model call and of the handlers.                       *)

\* What the fallback answers to the prompt, but for the data it shows.
FallbackAnswered ==
    LET intent == FallbackIntent(lower(prompt))
    IN  IF intent = "datasets" THEN StartsWith(response, "Here are your datasets: ")
        ELSE IF intent = "rows" THEN StartsWith(response, "First 10 rows of ")
        ELSE IF intent = "help" THEN response = HelpResponse(prompt)
        ELSE response = ConfigureResponse(prompt)

\* C17: the model is called at most once in a request; when the call raises
\* it is not repeated, no tool is run, and the fallback answers.
C17_OneModelCallNoRetry ==
    /\ llmCalls <= 1
    /\ (pc = "done" /\ reply.kind = "raises") =>
          /\ llmCalls = 1
          /\ exc.where = "llm"
          /\ tool_calls = <<>>
          /\ results = <<>>
          /\ FallbackAnswered

C17_Witness ==
    /\ pc = "done"
    /\ reply.kind = "raises"
    /\ llmCalls = 1
    /\ prompt = "Summarize the table"
    /\ response = ConfigureResponse(prompt)

\* The text lines 217-218 extract from each reply of NonJsonTexts.
ExtractedText ==
    IF reply.text = "Sorry, I cannot answer that." THEN "Sorry, I cannot answer that."
    ELSE IF reply.text = "  Here you go: {tool_calls: none} \n" THEN "{tool_calls: none}"
    ELSE "{'tool_calls': []}"

\* C18: when the text extracted from the model's answer is not JSON, the
\* response holds that text and the message of the parse error; no tool has
\* run, the fallback was not entered and no exception left run_agent.
C18_ParseErrorIsReturned ==
    (pc = "done" /\ reply.kind = "text") =>
        /\ Contains(response, ExtractedText)
        /\ Contains(response, JsonDecodeError(ExtractedText))
        /\ StartsWith(response, "LLM Response (JSON parsing error): ")
        /\ tool_calls = <<>>
        /\ results = <<>>
        /\ bqLog = <<>>
        /\ exc = NoExc
        /\ ~EnteredFallback
        /\ ~escaped

C18_Witness ==
    /\ pc = "done"
    /\ reply.text = "  Here you go: {tool_calls: none} \n"
    /\ response = "LLM Response (JSON parsing error): {tool_calls: none}\nError: "
                      \o "Expecting property name enclosed in double quotes: line 1 column 2 (char 1)"

\* The enhancement call of a complex query has failed and the planning
\* agent has returned.
EnhancementFailed ==
    /\ ppc = "done"
    /\ needs_complex_reasoning(prompt)
    /\ CanEnhance
    /\ enh.kind = "raises"

\* C19: when the enhancement call fails, the planning agent returns a text
\* that holds the whole response of run_agent unchanged and, after it, the
\* note that the enhanced analysis could not be generated, with the message
\* of the failure.
C19_EnhancementFailureKeepsResponse ==
    EnhancementFailed =>
        LET at == FirstAt(presponse, response)
            rest == SubSeq(presponse, at + Len(response), Len(presponse))
        IN  /\ pc = "done"
            /\ Len(response) > 0
            /\ at # 0
            /\ Contains(rest, "Unable to generate enhanced analysis")
            /\ Contains(rest, enh.msg)
            /\ ~Contains(presponse, "## Enhanced Analysis")

C19_Witness ==
    /\ EnhancementFailed
    /\ prompt = "please analyze this"
    /\ reply.kind = "decision"
    /\ Len(results) = 1
    /\ StartsWith(response, "## Analysis Results")
    /\ presponse = "## Original Response\n" \o response
                       \o "\n\n## Analysis\nUnable to generate enhanced analysis due to: "
                       \o "503 The model is overloaded"
                       \o "\n\nThe raw data from the SQL query is shown above.\n"

\* C20: no exception leaves run_agent: every run that ends has returned a
\* non-empty string, whatever the model and the client did; an exception
\* the handler of line 404 takes gives "Error running agent: " followed by
\* its message and nothing else, and one the handler of line 361 takes
\* gives the answer of the fallback.
C20_AlwaysReturnsAString ==
    /\ ~escaped
    /\ pc = "done" =>
          /\ Len(response) > 0
          /\ exc.by \in {"none", "inner", "outer"}
          /\ exc.by = "outer" => response = "Error running agent: " \o exc.msg
          /\ exc.by = "inner" => FallbackAnswered

C20_Witness ==
    /\ pc = "done"
    /\ ~escaped
    /\ exc.where = "tool"
    /\ exc.by = "inner"
    /\ client = "down"
    /\ response = ConfigureResponse(prompt)

\* C30: when a tool call of the batch raises, the loop stops there: no later
\* call of the batch reaches bq_client, the results of the earlier calls
\* appear in no response, no exception leaves run_agent, and the response is
\* the one the keyword fallback gives for the prompt, made from a fresh call
\* on bq_client where the prompt's intent asks for one.
C30_ToolExceptionFallsBack ==
    exc.where = "tool" =>
        /\ idx = exc.at
        /\ Len(results) = exc.at - 1
        /\ \A i \in Positions : i > exc.at => LogAt(i) = <<>>
        /\ ~escaped
        /\ pc \in {"fallback", "done"}
        /\ pc = "done" =>
              /\ FallbackAnswered
              /\ ~StartsWith(response, "Based on your question")
              /\ ~StartsWith(response, "## Analysis Results")
              /\ Len(FallbackLog) =
                    IF FallbackIntent(lower(prompt)) \in {"datasets", "rows"} THEN 1 ELSE 0

C30_Witness ==
    /\ pc = "done"
    /\ client = "ok"
    /\ prompt = "What datasets do I have?"
    /\ Len(tool_calls) = 2
    /\ tool_calls[1].name = "list_dataset_ids"
    /\ tool_calls[2].name = "list_table_ids"
    /\ exc.where = "tool" /\ exc.at = 2
    /\ Len(results) = 1
    /\ Len(bqLog) = 2
    /\ bqLog[1].at = 1 /\ bqLog[2].at = 0
    /\ bqLog[2].call.op = "list_datasets"
    /\ StartsWith(response, "Here are your datasets: ")

----------------------------------------------------------------------------
(* Properties of the response built from the results of a batch.           *)

\* The model decided on the empty batch.
DecidedNoTools == reply.kind = "decision" /\ reply.calls = <<>>

\* C21: when the decision holds an empty tool_calls sequence no tool is
\* invoked, the results stay empty, no exception is raised, the fallback is
\* never entered, and run_agent returns the "didn't need to use any tools"
\* response that echoes the prompt.
C21_EmptyBatchIsNoToolUse ==
    DecidedNoTools =>
        /\ bqLog = <<>>
        /\ results = <<>>
        /\ exc.where = "none"
        /\ ~escaped
        /\ pc # "fallback"
        /\ pc = "done" =>
              response =
                  "I analyzed your question but didn't need to use any tools.\n\n"
                      \o "You asked: '" \o prompt \o "'"

C21_Witness ==
    /\ DecidedNoTools
    /\ pc = "done"
    /\ llmCalls = 1
    /\ prompt = "What datasets do I have?"
    /\ StartsWith(response, "I analyzed your question but didn't need")

\* The results hold one of the tool.
HasResultOf(tool_name) == \E i \in 1..Len(results) : results[i].tool = tool_name

IsSqlResult(r) == r.tool = "execute_sql"

\* run_agent has returned the analytical rendering of the results.
RespondedWithAnalysis ==
    RespondedFromResults /\ StartsWith(response, "## Analysis Results\n\n")

\* C22: on the analytical path, results that hold both a get_table_info and
\* an execute_sql result, in either order, are rendered from the execute_sql
\* result, as if the table description were not among them; the "Table
\* Summary" section appears only when the results hold no execute_sql result.
C22_QueryResultIsPrimary ==
    RespondedWithAnalysis =>
        /\ Contains(response, "**Table Summary:**") => ~HasResultOf("execute_sql")
        /\ (HasResultOf("get_table_info") /\ HasResultOf("execute_sql")) =>
              response = AnalysisResponse(prompt, SelectSeq(results, IsSqlResult))

\* Call i of the batch names one of the two tools whose arguments are
\* filtered (lines 241 and 247).
Filtered(i) == tool_calls[i].name \in {"get_dataset_info", "get_table_info"}

\* The declared parameters of call i that the model supplied, in the order
\* the tool passes them to bq_client.
SuppliedDeclared(i) ==
    LET a == tool_calls[i].arguments
    IN  IF tool_calls[i].name = "get_dataset_info"
        THEN <<a["dataset_id"]>>
        ELSE <<a["dataset_id"], a["table_id"]>>

\* C23: for get_dataset_info and get_table_info the keys outside the declared
\* parameters are dropped: when the declared ones are all supplied the call
\* does not raise and bq_client is called once with exactly their values,
\* whatever other keys came with them; a call that lacks a declared one
\* never reaches bq_client.
C23_ExtraKeysAreDropped ==
    \A i \in Positions :
        (Attempted(i) /\ Filtered(i)) =>
            IF ToolParams(tool_calls[i].name) \subseteq DOMAIN tool_calls[i].arguments
            THEN /\ ~RaisedAt(i)
                 /\ Len(LogAt(i)) = 1
                 /\ LogAt(i)[1].call.op = tool_calls[i].name
                 /\ LogAt(i)[1].call.args = SuppliedDeclared(i)
                 /\ i <= Len(results)
                 /\ client = "ok" => ~ErrorShaped(results[i].result)
            ELSE LogAt(i) = <<>>

C23_Witness ==
    /\ pc = "done"
    /\ client = "ok"
    /\ Len(tool_calls) = 2
    /\ tool_calls[1].name = "get_dataset_info"
    /\ DOMAIN tool_calls[1].arguments = {"dataset_id", "project_id"}
    /\ tool_calls[2].name = "get_table_info"
    /\ DOMAIN tool_calls[2].arguments = {"dataset_id", "table_id", "project_id", "location"}
    /\ Len(results) = 2
    /\ LogAt(1)[1].call.args = <<DATASET_ID>>
    /\ LogAt(2)[1].call.args = <<DATASET_ID, TABLE_ID>>
    /\ DictGet(results[2].result.val, "num_rows", PyNone) = PyInt("93")

----------------------------------------------------------------------------
(* The order of the external calls of a request of run_planning_agent.     *)

\* The steps that make an external call.
DecisionCall == llmCalls' = llmCalls + 1 /\ ppc' = ppc
EnhancementCall == llmCalls' = llmCalls + 1 /\ ppc' # ppc
DataCall == bqLog' # bqLog

\* C24: the external calls of a request come one at a time: a step makes at
\* most one model or data-access call; the tool calls of the batch reach
\* bq_client in batch order, after the decision call; the enhancement call
\* is made only when run_agent has returned, wraps the response run_agent
\* returned, and is the last call of the request; a request makes at most two
\* model calls.
C24_CallsAreSequential ==
    [][ /\ llmCalls' <= 2
        /\ llmCalls' - llmCalls \in {0, 1}
        /\ DataCall =>
              /\ llmCalls' = llmCalls
              /\ \E e \in {bqLog'[Len(bqLog')]} :
                    /\ bqLog' = Append(bqLog, e)
                    /\ pc = "dispatch" =>
                          /\ e.at = idx
                          /\ llmCalls = 1
                          /\ \A k \in 1..Len(bqLog) : bqLog[k].at < idx
                    /\ pc # "dispatch" => pc = "fallback" /\ e.at = 0
        /\ DecisionCall => /\ llmCalls = 0
                            /\ bqLog = <<>>
                            /\ pc = "llm"
        /\ EnhancementCall =>
              /\ pc = "done"
              /\ idx > Len(tool_calls) \/ exc.where # "none"
              /\ llmCalls <= 1
              /\ Contains(presponse', response)
        /\ ppc = "done" => (llmCalls' = llmCalls /\ bqLog' = bqLog)
      ]_vars

C24_Witness ==
    /\ ppc = "done"
    /\ llmCalls = 2
    /\ Len(tool_calls) = 2
    /\ Len(bqLog) = 2
    /\ bqLog[1].at = 1 /\ bqLog[1].call.op = "get_table_info"
    /\ bqLog[2].at = 2 /\ bqLog[2].call.op = "execute_query"
    /\ StartsWith(presponse, "## Original Response\n" \o response)

\* The result the analysis is built on is a non-empty list of rows whose
\* first row carries no error.
SuccessfulRows(q) ==
    q.kind = "list_dict" /\ Len(q.val) > 0 /\ ~HasKey(q.val[1], "error")

\* The first row has a key containing "Sector" and the lowercased prompt
\* contains "sector".
AboutSectors(q) ==
    /\ Contains(lower(prompt), "sector")
    /\ \E j \in 1..Len(q.val[1]) : Contains(q.val[1][j][1], "Sector")

\* The lines of the text show the "Sector Analysis" block for the rows: the
\* total, one numbered line for each of the first min(n, 10) rows, in order,
\* holding the row's value under Sector ("Unknown" without that key), then
\* the "... and n-10 more" note exactly when n > 10; and no table.
ShowsSectorBlock(ls, rows) ==
    \E n \in {Len(rows)} : \E m \in {IF Len(rows) > 10 THEN 10 ELSE Len(rows)} :
    \E k \in 3..Len(ls) :
        /\ ls[k] = "**Sector List:**"
        /\ ls[3] = "**Sector Analysis:**"
        /\ ls[k - 2] = "**Total sectors identified**: " \o ToString(n)
        /\ \A i \in 1..m :
              ls[k + i] = ToString(i) \o ". "
                              \o StrOf(DictGet(rows[i], "Sector", PyStr("Unknown")))
        /\ ls[k + m + 1] = IF n > 10
                           THEN "... and " \o ToString(n - 10) \o " more sectors"
                           ELSE "**Analysis Observations:**"
        /\ (\E l \in 1..Len(ls) : StartsWith(ls[l], "... and ")) <=> n > 10
        /\ \A l \in 1..Len(ls) : ~IsTableLine(ls[l])

----------------------------------------------------------------------------
(* BigQueryClient called directly, as tests/test_mcp.py does: any sequence *)
(* of at most MaxClientCalls calls of its methods on one client.           *)

\* The arguments of the calls: those of the tests, and objects that exist.
ClientCalls ==
    { [op |-> "list_datasets", args |-> <<>>],
      [op |-> "get_dataset_info", args |-> <<"test_dataset">>],
      [op |-> "get_dataset_info", args |-> <<DATASET_ID>>],
      [op |-> "list_tables", args |-> <<"test_dataset">>],
      [op |-> "list_tables", args |-> <<DATASET_ID>>],
      [op |-> "get_table_info", args |-> <<"test_dataset", "test_table">>],
      [op |-> "get_table_info", args |-> <<DATASET_ID, TABLE_ID>>],
      [op |-> "execute_query", args |-> <<SqlGood>>],
      [op |-> "execute_query", args |-> <<SqlOther>>],
      [op |-> "execute_query", args |-> <<SqlBad>>] }

InitClient ==
    /\ pc = "idle"
    /\ apiKey = FALSE
    /\ client \in {"none", "ok", "down"}
    /\ prompt = ""
    /\ reply = NoReply
    /\ llmCalls = 0
    /\ escaped = FALSE
    /\ tool_calls = <<>>
    /\ idx = 1
    /\ results = <<>>
    /\ bqLog = <<>>
    /\ exc = NoExc
    /\ response = ""
    /\ PlanIdle
    /\ SideIdle

\* One call of the method op of bq_client; what it returns or raises is
\* logged.
ClientCall(op) ==
    /\ pc = "idle"
    /\ ppc = "idle"
    /\ Len(bqLog) < MaxClientCalls
    /\ \E call \in ClientCalls :
          /\ call.op = op
          /\ bqLog' = Append(bqLog,
                             DirectCall(op, call.args, BqInvoke(client, op, call.args)))
    /\ UNCHANGED <<pc, inputVars, llmCalls, escaped, tool_calls, idx, results, exc,
                   response>>
    /\ UNCHANGED <<planVars, sideVars>>

ClientListDatasets == ClientCall("list_datasets")
ClientGetDatasetInfo == ClientCall("get_dataset_info")
ClientListTables == ClientCall("list_tables")
ClientGetTableInfo == ClientCall("get_table_info")
ClientExecuteQuery == ClientCall("execute_query")

NextClient ==
    \/ ClientListDatasets
    \/ ClientGetDatasetInfo
    \/ ClientListTables
    \/ ClientGetTableInfo
    \/ ClientExecuteQuery

SpecClient == InitClient /\ [][NextClient]_vars

IsList(v) == v.kind \in {"list_str", "list_dict"}
IsMapping(v) == v.kind = "dict"

\* What a method answers on a client that was never authenticated.
UnauthenticatedShape(op, v) ==
    IF op \in {"list_datasets", "list_tables"}
    THEN v.kind = "list_str" /\ Len(v.val) > 0 /\ Contains(v.val[1], "Error")
    ELSE IF op \in {"get_dataset_info", "get_table_info"}
    THEN IsMapping(v) /\ HasKey(v.val, "error")
    ELSE v.kind = "list_dict" /\ Len(v.val) = 1 /\ HasKey(v.val[1], "error")

\* C25: no method of BigQueryClient raises, whatever the state of the client
\* and whatever the warehouse raises: list_datasets, list_tables and
\* execute_query return a list, get_dataset_info and get_table_info a
\* mapping; on an unauthenticated client the list of list_datasets and
\* list_tables starts with a string containing "Error", the mappings have
\* the key error, and execute_query returns one mapping with the key error.
C25_ClientReturnsDeclaredShapes ==
    \A k \in 1..Len(bqLog) :
        \E e \in {bqLog[k].call} :
            /\ ~e.raised
            /\ e.op \in {"list_datasets", "list_tables", "execute_query"} => IsList(e.ret)
            /\ e.op \in {"get_dataset_info", "get_table_info"} => IsMapping(e.ret)
            /\ client = "none" => UnauthenticatedShape(e.op, e.ret)

C25_Witness ==
    /\ client = "down"
    /\ Len(bqLog) = 2
    /\ bqLog[1].call.op = "get_table_info"
    /\ bqLog[1].call.ret = Dict(<< <<"error", PyStr(BackendDown)>> >>)
    /\ bqLog[2].call.op = "execute_query"
    /\ bqLog[2].call.ret = ListDict(<< << <<"error", PyStr(BackendDown)>> >> >>)

\* The calls of test_error_handling on a client without credentials.
C25_WitnessUnauthenticated ==
    /\ client = "none"
    /\ Len(bqLog) = 2
    /\ bqLog[1].call.op = "list_datasets"
    /\ bqLog[1].call.ret = ListStr(<<"Error: BigQuery client not authenticated">>)
    /\ bqLog[2].call.op = "get_dataset_info"
    /\ bqLog[2].call.ret = Dict(<< <<"error", PyStr("BigQuery client not authenticated")>> >>)

----------------------------------------------------------------------------
(* Properties of the analytical rendering (adk_agent.py, lines 270-341).   *)

IsTableInfoResult(r) == r.tool = "get_table_info"

\* C26: on the analytical path, of several execute_sql results the last in
\* batch order is the one the analysis renders, and of several
\* get_table_info results (no query result being there to take precedence)
\* the first in batch order.
C26_LastQueryFirstTableInfo ==
    RespondedWithAnalysis =>
        \E sqls \in {SelectSeq(results, IsSqlResult)} :
        \E infos \in {SelectSeq(results, IsTableInfoResult)} :
            /\ Len(sqls) >= 2 =>
                  response = AnalysisResponse(prompt, <<sqls[Len(sqls)]>>)
            /\ (Len(infos) >= 2 /\ Len(sqls) = 0) =>
                  response = AnalysisResponse(prompt, <<infos[1]>>)

----------------------------------------------------------------------------
(* extract_json_from_response called on one text (adk_agent.py, line 217). *)

DecisionObject == "{\"tool_calls\": []}"
NestedObject == "{\"tool_calls\": [{\"name\": \"list_dataset_ids\", \"arguments\": {}}]}"
BareObject == "{\"tool_calls\": [{\"name\": \"bogus\"}]}"

\* What the model writes before the block: nothing, prose, prose that
\* itself holds a brace group.
Leads == {"", "Here is my plan:\n", "With arguments {} I will call:\n"}

\* The fenced block: none, labelled json, unlabelled, or without line breaks.
Blocks ==
    { <<"", "">>,
      <<Fence \o "json\n" \o DecisionObject \o "\n" \o Fence, DecisionObject>>,
      <<Fence \o "\n" \o NestedObject \o "\n" \o Fence, NestedObject>>,
      <<Fence \o "json " \o NestedObject \o Fence, NestedObject>>,
      <<Fence \o DecisionObject \o " \n" \o Fence, DecisionObject>> }

\* What follows: nothing, white space, prose, or a bare object that ends the
\* text but for white space.
Tails ==
    { <<"", "">>,
      <<"\n", "">>,
      <<"\nDone.", "">>,
      <<"\n" \o BareObject, BareObject>>,
      <<" " \o BareObject \o " \n", BareObject>> }

ExtractInputs ==
    { TextParts(lead, b[1], b[2], t[1], t[2]) : lead \in Leads, b \in Blocks, t \in Tails }

InitExtract ==
    /\ xpc = "call"
    /\ xin \in ExtractInputs
    /\ xout = ""
    /\ pc = "idle"
    /\ apiKey = FALSE
    /\ client = "none"
    /\ prompt = ""
    /\ reply = NoReply
    /\ llmCalls = 0
    /\ escaped = FALSE
    /\ tool_calls = <<>>
    /\ idx = 1
    /\ results = <<>>
    /\ bqLog = <<>>
    /\ exc = NoExc
    /\ response = ""
    /\ PlanIdle
    /\ FormatIdle
    /\ ChatIdle

ExtractCall ==
    /\ xpc = "call"
    /\ xout' = extract_json_from_response(TextOf(xin))
    /\ xpc' = "ret"
    /\ UNCHANGED xin
    /\ UNCHANGED <<agentVars, planVars, fmtVars, chatVars>>

NextExtract == ExtractCall

SpecExtract == InitExtract /\ [][NextExtract]_vars

\* C27: the three shapes in priority order: the object inside a fenced
\* block (labelled json or not) is returned, also when a bare object ends
\* the text; without such a block the object that ends the text but for
\* white space is returned; without either the text comes back unchanged.
C27_ExtractionPriority ==
    xpc = "ret" =>
        xout = IF xin.inside # "" THEN xin.inside
               ELSE IF xin.last # "" THEN xin.last
               ELSE TextOf(xin)

----------------------------------------------------------------------------
(* The chat page (src/src/streamlit_ui.py).  Each event of the session, a  *)
(* submitted prompt or a click on "Clear Chat History", runs the script    *)
(* from the top; a run is taken to reach its end before the next event.    *)
(* run_planning_agent is a call that returns a text or raises.             *)

ChatPrompts == {"What datasets do I have?", "help"}

\* What run_planning_agent may return for the prompt.
AgentTexts(text) == {NoToolsResponse(text), OuterHandler("division by zero")}

\* str(e) of what asyncio.run(run_planning_agent(prompt)) may raise.
AgentErrors ==
    {"asyncio.run() cannot be called from a running event loop", "boom"}

Message(role, content) == [role |-> role, content |-> content]

\* A faulty variant of AfterAgentRaises: the exception ends the run before
\* line 72.
AfterAgentRaisesUncaught(msgs, message) == msgs

\* Lines 66-67 and 72.
AfterAgentRaises(msgs, message) ==
    Append(msgs, Message("assistant", "Error running agent: " \o message))

InitChat ==
    /\ upc = "idle"
    /\ messages = <<>>
    /\ pc = "idle"
    /\ apiKey = FALSE
    /\ client = "none"
    /\ prompt = ""
    /\ reply = NoReply
    /\ llmCalls = 0
    /\ escaped = FALSE
    /\ tool_calls = <<>>
    /\ idx = 1
    /\ results = <<>>
    /\ bqLog = <<>>
    /\ exc = NoExc
    /\ response = ""
    /\ PlanIdle
    /\ FormatIdle
    /\ ExtractIdle

\* Lines 53-57: a prompt is submitted; the user message is appended.
Submit ==
    /\ upc = "idle"
    /\ Len(messages) < 2 * MaxExchanges
    /\ \E text \in ChatPrompts : messages' = Append(messages, Message("user", text))
    /\ upc' = "agent"
    /\ UNCHANGED <<agentVars, planVars, fmtVars, extVars>>

\* Lines 65, 70-72: run_planning_agent returns; its text is appended.
AgentReturns ==
    /\ upc = "agent"
    /\ \E text \in AgentTexts(messages[Len(messages)].content) :
          messages' = Append(messages, Message("assistant", text))
    /\ upc' = "idle"
    /\ UNCHANGED <<agentVars, planVars, fmtVars, extVars>>

\* Lines 65-67, 70-72: run_planning_agent raises; the handler's text is
\* appended.
AgentRaises ==
    /\ upc = "agent"
    /\ \E message \in AgentErrors : messages' = AfterAgentRaises(messages, message)
    /\ upc' = "idle"
    /\ UNCHANGED <<agentVars, planVars, fmtVars, extVars>>

\* Lines 108-110: "Clear Chat History" is clicked.
ClearChatHistory ==
    /\ upc = "idle"
    /\ messages' = <<>>
    /\ UNCHANGED upc
    /\ UNCHANGED <<agentVars, planVars, fmtVars, extVars>>

NextChat ==
    \/ Submit
    \/ AgentReturns
    \/ AgentRaises
    \/ ClearChatHistory

SpecChat == InitChat /\ [][NextChat]_vars

\* Between two events the history has even length and alternates user,
\* assistant from the first message on.
HistoryAlternates ==
    /\ \A k \in 1..Len(messages) :
          messages[k].role = IF k % 2 = 1 THEN "user" ELSE "assistant"
    /\ upc = "idle" => Len(messages) % 2 = 0

ErrorTexts == {"Error running agent: " \o message : message \in AgentErrors}

============================================================================
